---------------------------- MODULE Spec2Model ----------------------------
(***************************************************************************)
(* NeuralStride: the web app's ExtensionBridge, the extension's service    *)
(* worker (v2.1) and the voice coach, as state machines.                   *)
(*                                                                         *)
(* Section 1  messaging bridge + monitoring-state reconciliation           *)
(*            (extensionBridge.ts, VideoFeed.tsx, content-script.js)       *)
(* Section 2  voice feedback controller (useVoiceCoach.ts)                 *)
(***************************************************************************)
EXTENDS Integers, Sequences, FiniteSets, TLC

(***************************************************************************)
(* Bounds of the model (not program constants).                            *)
(***************************************************************************)
MaxMsgs == 3        \* messages the web app hands to the bridge in one run
MaxChecks == 1      \* checkExtension() invocations awaiting a ping at once
MaxTimers == 1      \* scheduled checkExtension() calls pending at once
MaxNotes == 1       \* Start/Stop notifications in flight to the web app
MaxFairMsgs == 2    \* messages handed over in a run of the fair specification

(***************************************************************************)
(* Program constants.                                                      *)
(***************************************************************************)
maxRetries == 3     \* ExtensionBridge.maxRetries

Null == "null"
KnownId == "edifjoehbcbkeimfjndlafjfpgjolnoh"

VARIABLES
  \* ---- ExtensionBridge (web app process) ----
  extensionId,            \* Null or KnownId
  isExtensionAvailable,   \* the bridge's connected flag
  messageQueue,           \* pending queue (FIFO)
  retryCount,
  monitorOn,              \* connectionCheckInterval is set
  initPending,            \* init() still awaits its discovery ping
  nDiscover,              \* checkExtension() calls awaiting tryConnect(knownId)
  nPing,                  \* checkExtension() calls awaiting tryConnect(extensionId)
  pendingChecks,          \* scheduled checkExtension() calls (setTimeout, mount effect)
  announceListener,       \* a window 'message' listener of discoverExtensionId exists
  draining,               \* processMessageQueue's while loop is running
  inflight,               \* chrome.runtime.sendMessage calls awaiting their callback
  nextId,                 \* next message identity
  \* ---- web app component (VideoFeed) ----
  isStreaming,
  \* ---- extension service worker ----
  isMonitoring,
  toWeb,                  \* notifyWebApp messages on their way to the web app
  lastReply,              \* the last sendResponse of onMessageExternal
  \* ---- the channel and the observer ----
  link,                   \* "up", "down", "broken" (sendMessage throws), "stable"
  delivered,              \* messages the extension has received, in order
  queuedDown,             \* ids the bridge accepted while disconnected
  msgBudget,              \* messages the web app may hand over in this run
  \* ---- useVoiceCoach (refs of the hook) ----
  lastPostureState,       \* Null, "good", "fair" or "poor"
  stateChangeTimeRef,
  hasSpokenForStateRef,
  consecutivePoorCount,
  lastSpeakTime,
  \* ---- its settings, the clock, the timers and the speech synthesizer ----
  frequency,              \* settings.frequency
  now,                    \* Date.now(), in steps of 500 ms
  speakTimers,            \* speak()'s pending setTimeout callbacks
  synthQueue,             \* utterances handed to synth.speak, not started yet
  \* ---- the observer of the voice coach ----
  call,                   \* the evaluation made at this instant, or NoCall
  lastHanded,             \* when synth.speak was last called, or NeverHanded
  enteredFrom,            \* the bucket the current bucket was entered from
  emergencies,            \* critical messages requested during this stay
  run,                    \* progress of the 1-sample-per-second stream 80.., 20..
  announced,              \* announcements made so far
  \* ---- VirtualPlant (health in tenths, times in seconds) ----
  plantHealth,            \* 10 * plantHealth
  plantStage,
  plantScore,             \* the postureScore prop
  plantMonitoring,        \* the isMonitoring prop
  sinceUpdate,            \* Date.now() - lastUpdateTime.current
  intervalAge,            \* time since the running interval was set or fired
  stagePending,           \* the stage effect has yet to run for this health
  \* ---- the per-frame functions (useMediaPipe, SpineHeatmap) ----
  probe,                  \* the function called and its arguments
  result,                 \* what it returned, or NoResult before the call
  \* ---- the content script (one page load) ----
  scriptLoaded,           \* the script's top level has run
  isConnected,
  announceRetries,        \* the content script's retryCount
  announceInterval,       \* announceInterval is set
  notifyAttempts,
  notifyInterval,         \* notifyInterval is set
  loadTimeout,            \* the load listener's timeout: "none", "pending", "done"
  hidden,                 \* document.hidden
  readyPosted,            \* CONTENT_SCRIPT_READY envelopes posted
  confirmedPosted,        \* CONTENT_SCRIPT_CONFIRMED envelopes posted
  heartbeats,             \* HEARTBEAT envelopes posted
  \* ---- ExtensionBridge teardown ----
  destroyed,              \* destroy() has been called
  \* ---- the service worker's poor-posture notifications (times in ms) ----
  swNow,                  \* Date.now() in the worker, in steps of 20 s
  currentScore,
  lastNotificationTime,
  settingsReads,          \* chrome.storage.local.get calls awaiting their callback
  notifiedAt              \* when each chrome.notifications.create was called

bridgeVars == <<extensionId, isExtensionAvailable, messageQueue, retryCount,
                monitorOn, initPending, nDiscover, nPing, pendingChecks,
                announceListener, draining, inflight, nextId>>
syncVars == <<isStreaming, isMonitoring, toWeb, lastReply>>
envVars == <<link, delivered, queuedDown, msgBudget>>
coachVars == <<lastPostureState, stateChangeTimeRef, hasSpokenForStateRef,
               consecutivePoorCount, lastSpeakTime>>
voiceVars == <<coachVars, frequency, now, speakTimers, synthQueue, call,
               lastHanded, enteredFrom, emergencies, run, announced>>
plantVars == <<plantHealth, plantStage, plantScore, plantMonitoring,
               sinceUpdate, intervalAge, stagePending>>
calcVars == <<probe, result>>
scriptVars == <<scriptLoaded, isConnected, announceRetries, announceInterval,
                notifyAttempts, notifyInterval, loadTimeout, hidden,
                readyPosted, confirmedPosted, heartbeats>>
noticeVars == <<swNow, currentScore, lastNotificationTime, settingsReads,
                notifiedAt>>
vars == <<bridgeVars, syncVars, envVars, voiceVars, plantVars, calcVars,
          scriptVars, destroyed, noticeVars>>

\* What the actions of one component leave alone.
notBridge == <<voiceVars, plantVars, calcVars, scriptVars, destroyed,
               noticeVars>>
notVoice == <<bridgeVars, syncVars, envVars, plantVars, calcVars, scriptVars,
              destroyed, noticeVars>>
notPlant == <<bridgeVars, syncVars, envVars, voiceVars, calcVars, scriptVars,
              destroyed, noticeVars>>
notCalc == <<bridgeVars, syncVars, envVars, voiceVars, plantVars, scriptVars,
             destroyed, noticeVars>>
notScript == <<bridgeVars, syncVars, envVars, voiceVars, plantVars, calcVars,
               destroyed, noticeVars>>
notNotice == <<bridgeVars, isStreaming, toWeb, envVars, voiceVars, plantVars,
               calcVars, scriptVars, destroyed>>

NoProbe == [fn |-> "none"]
NoResult == [returned |-> FALSE]

\* No frame has been processed.
CalcStart == probe = NoProbe /\ result = NoResult

\* Times are multiples of 500 ms.
Ms(t) == t \div 500

\* Date.now() when the hook is mounted: beyond 3000, so that the first
\* speak() passes the gate against lastSpeakTime = 0.
Epoch == Ms(3000)

NoCall == [score |-> -1, timeInState |-> -1, hadSpoken |-> FALSE,
           poorAtAlert |-> 0, said |-> <<>>]
NeverHanded == -1

\* The hook after its first render.
VoiceStart ==
  /\ lastPostureState = Null
  /\ stateChangeTimeRef = 0
  /\ hasSpokenForStateRef = FALSE
  /\ consecutivePoorCount = 0
  /\ lastSpeakTime = 0
  /\ now = Epoch
  /\ speakTimers = <<>>
  /\ synthQueue = <<>>
  /\ call = NoCall
  /\ lastHanded = NeverHanded
  /\ enteredFrom = Null
  /\ emergencies = 0
  /\ run = "none"
  /\ announced = 0

\* VirtualPlant after its first render: useState(50), useState(2), the
\* effects of the first render not run yet; VideoFeed's metrics start at
\* postureScore 0, and nothing is streaming.
PlantStart ==
  /\ plantHealth = 500
  /\ plantStage = 2
  /\ plantScore = 0
  /\ plantMonitoring = FALSE
  /\ sinceUpdate = 0
  /\ intervalAge = 0
  /\ stagePending = TRUE

\* The content script before its top level runs, and a bridge that has not
\* been torn down.
ScriptStart ==
  /\ scriptLoaded = FALSE
  /\ isConnected = FALSE
  /\ announceRetries = 0
  /\ announceInterval = FALSE
  /\ notifyAttempts = 0
  /\ notifyInterval = FALSE
  /\ loadTimeout = "none"
  /\ hidden = FALSE
  /\ readyPosted = 0
  /\ confirmedPosted = 0
  /\ heartbeats = 0
  /\ destroyed = FALSE

\* The worker has just started: Date.now() is far above the cooldown, no
\* notification has been created.
NOTIFICATION_COOLDOWN == 60000
AtMs(t) == 20000 * t
NoticeStart ==
  /\ swNow = NOTIFICATION_COOLDOWN \div AtMs(1) + 1
  /\ currentScore = 50
  /\ lastNotificationTime = 0
  /\ settingsReads = <<>>
  /\ notifiedAt = <<>>

Reachable == link \in {"up", "stable"}
Broken == link = "broken"

(***************************************************************************)
(* Section 1a.  ExtensionBridge.  The methods are written as functions on  *)
(* a record of the bridge's fields, composed the way the code calls them;  *)
(* an action commits the record its handler ends with.                     *)
(***************************************************************************)
Bridge ==
  [eid |-> extensionId, avail |-> isExtensionAvailable, queue |-> messageQueue,
   retry |-> retryCount, nd |-> nDiscover, np |-> nPing, timers |-> pendingChecks,
   listener |-> announceListener, drain |-> draining, inflight |-> inflight]

Commit(b) ==
  /\ extensionId' = b.eid
  /\ isExtensionAvailable' = b.avail
  /\ messageQueue' = b.queue
  /\ retryCount' = b.retry
  /\ nDiscover' = b.nd
  /\ nPing' = b.np
  /\ pendingChecks' = b.timers
  /\ announceListener' = b.listener
  /\ draining' = b.drain
  /\ inflight' = b.inflight

\* The model's caps on concurrent asynchronous work.
Fits(b) == b.nd + b.np <= MaxChecks /\ b.timers <= MaxTimers

\* setTimeout(() => this.checkExtension(), ...)
scheduleCheck(b) == [b EXCEPT !.timers = @ + 1]

\* tryConnect: the ping is sent; its callback resolves the promise later.
tryConnect(b) == [b EXCEPT !.np = @ + 1]

\* processMessageQueue: the guard; the while loop itself is DrainStep.
processMessageQueue(b) ==
  IF ~b.avail \/ b.queue = <<>> THEN b ELSE [b EXCEPT !.drain = TRUE]

\* queueMessage
queueMessage(b, m) ==
  LET q == [b EXCEPT !.queue = Append(@, m)]
  IN  IF q.avail THEN processMessageQueue(q) ELSE q

\* sendMessageNow up to the return of chrome.runtime.sendMessage: no id ->
\* the message is dropped; the call throws -> catch path; else in flight.
sendMessageNow(b, m) ==
  IF b.eid = Null THEN b
  ELSE IF Broken THEN queueMessage([b EXCEPT !.avail = FALSE], m)
  ELSE [b EXCEPT !.inflight = Append(@, m)]

\* checkExtension up to its first await.
checkExtension(b) ==
  IF Broken THEN [b EXCEPT !.avail = FALSE]
  ELSE IF b.eid = Null THEN [b EXCEPT !.nd = @ + 1]
  ELSE tryConnect(b)

\* checkExtension after "await this.discoverExtensionId()".
checkAfterDiscover(b) ==
  IF b.eid = Null
  THEN IF b.retry < maxRetries THEN scheduleCheck([b EXCEPT !.retry = @ + 1]) ELSE b
  ELSE tryConnect(b)

\* Faulty variant: a failed ping schedules a retry even at the limit
checkAfterPing_RetriesAtLimit(b, connected) ==
  IF connected
  THEN processMessageQueue([b EXCEPT !.avail = TRUE, !.retry = 0])
  ELSE scheduleCheck([b EXCEPT !.avail = FALSE,
                               !.retry = IF @ < maxRetries THEN @ + 1 ELSE @])

\* Faulty variant: a successful ping does not process the queue
checkAfterPing_NoDrain(b, connected) ==
  IF connected
  THEN [b EXCEPT !.avail = TRUE, !.retry = 0]
  ELSE LET d == [b EXCEPT !.avail = FALSE]
       IN  IF d.retry < maxRetries THEN scheduleCheck([d EXCEPT !.retry = @ + 1]) ELSE d

\* checkExtension after "await this.tryConnect(this.extensionId)".
checkAfterPing(b, connected) ==
  IF connected
  THEN processMessageQueue([b EXCEPT !.avail = TRUE, !.retry = 0])
  ELSE LET d == [b EXCEPT !.avail = FALSE]
       IN  IF d.retry < maxRetries THEN scheduleCheck([d EXCEPT !.retry = @ + 1]) ELSE d

\* discoverExtensionId after "await this.tryConnect(knownId)".
discoverAfterPing(b, connected) ==
  IF connected THEN [b EXCEPT !.eid = KnownId] ELSE [b EXCEPT !.listener = TRUE]

\* Faulty variant: the entry points skip the isExtensionAvailable test
sendToExtension_Unguarded(b, m) == sendMessageNow(b, m)

\* sendPostureData / sendSessionStatus (the same body for both).
sendToExtension(b, m) ==
  IF ~b.avail
  THEN LET q == queueMessage(b, m)
       IN  IF q.retry = 0 THEN checkExtension(q) ELSE q
  ELSE sendMessageNow(b, m)

\* Faulty variant: the callback re-queues the message whether or not lastError is set
sendSucceeded_Requeues(b, m) == queueMessage(b, m)

\* the send callback's success branch: nothing but a log line.
sendSucceeded(b, m) == b

\* Faulty variant: the lastError branch does not re-queue the message
sendFailed_Drops(b, m) == scheduleCheck([b EXCEPT !.avail = FALSE])

\* the send callback's lastError branch.
sendFailed(b, m) ==
  scheduleCheck(queueMessage([b EXCEPT !.avail = FALSE], m))

\* Faulty variant: the interval callback never calls checkExtension
monitorCallback_Idle(b) == [b EXCEPT !.retry = 0]

\* setupConnectionMonitoring's interval callback.
monitorCallback(b) ==
  IF ~b.avail THEN checkExtension([b EXCEPT !.retry = 0]) ELSE b

(***************************************************************************)
(* Section 1b.  The extension's service worker and the web app component.  *)
(***************************************************************************)
Msg(k) == [id |-> nextId, kind |-> k]
StatusKind(isActive) == IF isActive THEN "sessionStatusOn" ELSE "sessionStatusOff"
NoteFor(monitoring) ==
  IF monitoring THEN "extensionStartedMonitoring" ELSE "extensionStoppedMonitoring"

\* notifyWebApp: one chrome.tabs.sendMessage to the web app's tab.
notifyWebApp(notes, action) == Append(notes, action)

\* Faulty variant: the v2.0 handler: sets the flag, notifies nobody
onMessageExternal_Silent(m, mon, notes) ==
  IF m.kind = "updatePosture"
  THEN <<TRUE, notes, [status |-> "updated"]>>
  ELSE <<m.kind = "sessionStatusOn", notes,
         [status |-> "received", wasMonitoring |-> mon,
          isMonitoring |-> (m.kind = "sessionStatusOn")]>>

\* onMessageExternal: the new <<isMonitoring, toWeb, reply>>.
onMessageExternal(m, mon, notes) ==
  IF m.kind = "updatePosture"
  THEN <<TRUE, notes, [status |-> "updated"]>>
  ELSE LET wasMonitoring == mon
           isActive == (m.kind = "sessionStatusOn")
           reply == [status |-> "received", wasMonitoring |-> wasMonitoring,
                     isMonitoring |-> isActive]
       IN  IF wasMonitoring # isActive
           THEN <<isActive, notifyWebApp(notes, NoteFor(isActive)), reply>>
           ELSE <<isActive, notes, reply>>

\* The web app hands message kind k to the bridge.
Hand(k) ==
  LET b == sendToExtension(Bridge, Msg(k))
  IN  /\ nextId <= msgBudget
      /\ Fits(b)
      /\ Commit(b)
      /\ nextId' = nextId + 1
      /\ queuedDown' = IF isExtensionAvailable THEN queuedDown
                       ELSE queuedDown \cup {nextId}

AtRest == ~draining

\* startCamera (the camera is granted)
StartCamera ==
  /\ UNCHANGED notBridge
  /\ AtRest /\ ~isStreaming
  /\ isStreaming' = TRUE
  /\ Hand(StatusKind(TRUE))
  /\ UNCHANGED <<monitorOn, initPending, isMonitoring, toWeb, lastReply, link, delivered,
                 msgBudget>>

\* stopCamera
StopCamera ==
  /\ UNCHANGED notBridge
  /\ AtRest /\ isStreaming
  /\ isStreaming' = FALSE
  /\ Hand(StatusKind(FALSE))
  /\ UNCHANGED <<monitorOn, initPending, isMonitoring, toWeb, lastReply, link, delivered,
                 msgBudget>>

\* processFrame with a detection result
ProcessFrame ==
  /\ UNCHANGED notBridge
  /\ AtRest /\ isStreaming
  /\ Hand("updatePosture")
  /\ UNCHANGED <<monitorOn, initPending, isStreaming, isMonitoring, toWeb, lastReply,
                 link, delivered, msgBudget>>

\* popup -> onMessage startMonitoring / stopMonitoring
ExtCommand(on) ==
  /\ UNCHANGED notBridge
  /\ Len(toWeb) < MaxNotes
  /\ isMonitoring' = on
  /\ toWeb' = notifyWebApp(toWeb, NoteFor(on))
  /\ UNCHANGED <<bridgeVars, isStreaming, lastReply, envVars>>

\* A notification reaches the web app: content script forward, then
\* handleExtensionMessage.
NotifyDeliver ==
  /\ UNCHANGED notBridge
  /\ AtRest /\ toWeb # <<>>
  /\ LET n == Head(toWeb)
         start == n = "extensionStartedMonitoring" /\ ~isStreaming
         stop == n = "extensionStoppedMonitoring" /\ isStreaming
     IN  /\ toWeb' = Tail(toWeb)
         /\ IF start \/ stop
            THEN /\ isStreaming' = start
                 /\ Hand(StatusKind(start))
            ELSE UNCHANGED <<bridgeVars, isStreaming, queuedDown>>
  /\ UNCHANGED <<monitorOn, initPending, isMonitoring, lastReply, link, delivered,
                 msgBudget>>

(***************************************************************************)
(* Section 1c.  The bridge's callbacks.                                    *)
(***************************************************************************)
\* One iteration of processMessageQueue's while loop.
DrainStep ==
  /\ UNCHANGED notBridge
  /\ draining
  /\ LET m == Head(messageQueue)
         b == sendMessageNow([Bridge EXCEPT !.queue = Tail(@)], m)
     IN  Commit([b EXCEPT !.drain = (b.queue # <<>>)])
  /\ UNCHANGED <<monitorOn, initPending, nextId, syncVars, envVars>>

\* The callback of the oldest chrome.runtime.sendMessage: the extension got
\* the message and answered, or lastError is set.
SendCallback ==
  /\ UNCHANGED notBridge
  /\ AtRest /\ inflight # <<>>
  /\ LET m == Head(inflight)
         b == [Bridge EXCEPT !.inflight = Tail(@)]
     IN  IF Reachable
         THEN LET r == onMessageExternal(m, isMonitoring, toWeb)
              IN  /\ Commit(sendSucceeded(b, m))
                  /\ delivered' = Append(delivered, m)
                  /\ isMonitoring' = r[1]
                  /\ toWeb' = r[2]
                  /\ lastReply' = r[3]
         ELSE /\ Fits(sendFailed(b, m))
              /\ Commit(sendFailed(b, m))
              /\ UNCHANGED <<delivered, isMonitoring, toWeb, lastReply>>
  /\ UNCHANGED <<monitorOn, initPending, nextId, isStreaming, link, queuedDown,
                 msgBudget>>

\* A scheduled checkExtension() runs.
TimerFires ==
  /\ UNCHANGED notBridge
  /\ AtRest /\ pendingChecks > 0
  /\ LET b == checkExtension([Bridge EXCEPT !.timers = @ - 1])
     IN  Fits(b) /\ Commit(b)
  /\ UNCHANGED <<monitorOn, initPending, nextId, syncVars, envVars>>

\* The 10 s connection monitor.
MonitorTick ==
  /\ UNCHANGED notBridge
  /\ AtRest /\ monitorOn /\ ~isExtensionAvailable
  /\ LET b == monitorCallback(Bridge)
     IN  Fits(b) /\ Commit(b)
  /\ UNCHANGED <<monitorOn, initPending, nextId, syncVars, envVars>>

\* The content script announces itself; the listener schedules a check.
Announce ==
  /\ UNCHANGED notBridge
  /\ AtRest /\ announceListener /\ ~isExtensionAvailable
  /\ LET b == scheduleCheck(Bridge)
     IN  Fits(b) /\ Commit(b)
  /\ UNCHANGED <<monitorOn, initPending, nextId, syncVars, envVars>>

\* init(): its discovery ping resolves, then setupConnectionMonitoring.
InitDiscovered ==
  /\ UNCHANGED notBridge
  /\ AtRest /\ initPending
  /\ Commit(discoverAfterPing(Bridge, Reachable))
  /\ initPending' = FALSE
  /\ monitorOn' = TRUE
  /\ UNCHANGED <<nextId, syncVars, envVars>>

\* checkExtension(): its discovery ping resolves.
DiscoverResolved ==
  /\ UNCHANGED notBridge
  /\ AtRest /\ nDiscover > 0
  /\ LET b == checkAfterDiscover(
                discoverAfterPing([Bridge EXCEPT !.nd = @ - 1], Reachable))
     IN  Fits(b) /\ Commit(b)
  /\ UNCHANGED <<monitorOn, initPending, nextId, syncVars, envVars>>

\* checkExtension(): its ping resolves.
PingResolved ==
  /\ UNCHANGED notBridge
  /\ AtRest /\ nPing > 0
  /\ LET b == checkAfterPing([Bridge EXCEPT !.np = @ - 1], Reachable)
     IN  Fits(b) /\ Commit(b)
  /\ UNCHANGED <<monitorOn, initPending, nextId, syncVars, envVars>>

\* The channel changes behind the page's back.  While the page is inside
\* the synchronous drain loop the runtime can be lost, but not come back.
LinkChanges ==
  /\ UNCHANGED notBridge
  /\ link # "stable"
  /\ link' \in {"up", "down", "broken"} \ {link}
  /\ draining => link' = "broken"
  /\ UNCHANGED <<bridgeVars, syncVars, delivered, queuedDown, msgBudget>>

\* From now on the extension stays reachable: every ping and send succeeds.
Stabilizes ==
  /\ UNCHANGED notBridge
  /\ AtRest /\ link # "stable"
  /\ link' = "stable"
  /\ UNCHANGED <<bridgeVars, syncVars, delivered, queuedDown, msgBudget>>

(***************************************************************************)
(* Section 1d.  The bridge system: initial state and next-state relation.  *)
(* Init is the state after "new ExtensionBridge()": init() has sent its    *)
(* discovery ping (or found no chrome.runtime and set the monitor up), and *)
(* VideoFeed's mount effect, which calls checkExtension(), is pending.     *)
(***************************************************************************)
BridgeStart(budget) ==
  /\ link \in {"up", "down", "broken"}
  /\ extensionId = Null
  /\ isExtensionAvailable = FALSE
  /\ messageQueue = <<>>
  /\ retryCount = 0
  /\ initPending = (link # "broken")
  /\ monitorOn = (link = "broken")
  /\ nDiscover = 0
  /\ nPing = 0
  /\ pendingChecks = 1
  /\ announceListener = FALSE
  /\ draining = FALSE
  /\ inflight = <<>>
  /\ nextId = 1
  /\ isStreaming = FALSE
  /\ isMonitoring = FALSE
  /\ toWeb = <<>>
  /\ lastReply = [status |-> "none"]
  /\ delivered = <<>>
  /\ queuedDown = {}
  /\ msgBudget = budget

\* VideoFeed mounts the voice coach with frequency: 'medium'.
BridgeInit ==
  BridgeStart(MaxMsgs) /\ VoiceStart /\ frequency = "medium" /\ PlantStart
  /\ CalcStart /\ ScriptStart /\ NoticeStart

BridgeNext ==
  \/ StartCamera
  \/ StopCamera
  \/ ProcessFrame
  \/ ExtCommand(TRUE)
  \/ ExtCommand(FALSE)
  \/ NotifyDeliver
  \/ DrainStep
  \/ SendCallback
  \/ TimerFires
  \/ MonitorTick
  \/ Announce
  \/ InitDiscovered
  \/ DiscoverResolved
  \/ PingResolved
  \/ LinkChanges

SpecBridge == BridgeInit /\ [][BridgeNext]_vars

(***************************************************************************)
(* The same system with the scheduling the browser guarantees: callbacks   *)
(* of issued requests arrive, timers and the 10 s interval keep firing,    *)
(* and a running loop takes its next step.                                 *)
(***************************************************************************)
FairInit ==
  BridgeStart(MaxFairMsgs) /\ VoiceStart /\ frequency = "medium" /\ PlantStart
  /\ CalcStart /\ ScriptStart /\ NoticeStart

FairNext == BridgeNext \/ Stabilizes

Fairness ==
  /\ WF_vars(DrainStep)
  /\ WF_vars(SendCallback)
  /\ WF_vars(InitDiscovered)
  /\ WF_vars(DiscoverResolved)
  /\ WF_vars(PingResolved)
  /\ SF_vars(TimerFires)
  /\ SF_vars(MonitorTick)

SpecBridgeFair == FairInit /\ [][FairNext]_vars /\ Fairness

(***************************************************************************)
(* Section 1e.  Claims about the bridge.                                   *)
(***************************************************************************)
DeliveredIds == {delivered[i].id : i \in 1..Len(delivered)}
QueuedIds == {messageQueue[i].id : i \in 1..Len(messageQueue)}
InflightIds == {inflight[i].id : i \in 1..Len(inflight)}
Inversion ==
  \E i, j \in 1..Len(delivered) : i < j /\ delivered[i].id > delivered[j].id

\* C1: the messages the bridge accepted while disconnected reach the
\* extension in the order they were enqueued (identities are handed out in
\* enqueue order), whatever send callbacks, send failures and connection
\* checks interleave.
C1_FifoDelivery ==
  \A i, j \in 1..Len(delivered) :
    (i < j /\ delivered[i].id \in queuedDown /\ delivered[j].id \in queuedDown)
      => delivered[i].id < delivered[j].id

C3_EventualDelivery ==
  \A id \in 1..MaxFairMsgs :
    (link = "stable" /\ id \in queuedDown) ~> (id \in DeliveredIds)

\* C3's case: the retry bound has been reached with a message still queued
\* and no check scheduled, and the extension is reachable for good.
C3_Witness ==
  /\ link = "stable"
  /\ retryCount = maxRetries
  /\ pendingChecks = 0 /\ nPing = 0 /\ nDiscover = 0 /\ ~initPending
  /\ \E id \in queuedDown : id \in QueuedIds

(***************************************************************************)
(* Section 1f.  Claims about monitoring-state reconciliation.              *)
(***************************************************************************)
Received(m) == delivered' = Append(delivered, m)

\* C4: when the extension receives SessionStatus(isActive) and its
\* monitoring flag differs from isActive, the flag becomes isActive and the
\* matching notification (Start for true, Stop for false) is sent toward the
\* web app.
C4_StatusReconciled ==
  [][\A m \in {[id |-> i, kind |-> StatusKind(a)] : i \in 1..msgBudget, a \in BOOLEAN} :
       (Received(m) /\ isMonitoring # (m.kind = "sessionStatusOn"))
         => /\ isMonitoring' = (m.kind = "sessionStatusOn")
            /\ toWeb' = Append(toWeb, NoteFor(m.kind = "sessionStatusOn"))]_vars

\* C4's case: SessionStatus(true) was handled with monitoring = false, and
\* the Start notification is on its way.
C4_Witness ==
  /\ lastReply = [status |-> "received", wasMonitoring |-> FALSE, isMonitoring |-> TRUE]
  /\ isMonitoring
  /\ toWeb # <<>> /\ toWeb[Len(toWeb)] = "extensionStartedMonitoring"

\* Every message handed to the bridge has arrived, nothing is queued, in
\* flight or scheduled, and no notification is on its way.
Quiescent ==
  /\ AtRest
  /\ messageQueue = <<>> /\ inflight = <<>> /\ toWeb = <<>>
  /\ DeliveredIds = 1..(nextId - 1)

\* C5: once every queued and in-flight message has been delivered, the web
\* app's streaming flag equals the extension's isMonitoring flag.
C5_FlagsConverge == Quiescent => (isStreaming = isMonitoring)

(***************************************************************************)
(* Section 1g.  Claims about failed sends and the pending queue.           *)
(***************************************************************************)
\* chrome.runtime.sendMessage throws inside processMessageQueue's loop
DrainThrew == DrainStep /\ Broken /\ extensionId # Null

\* chrome.runtime.sendMessage throws in a send made while available
DirectThrew ==
  /\ nextId' = nextId + 1
  /\ isExtensionAvailable /\ Broken /\ extensionId # Null

\* the send's callback finds chrome.runtime.lastError set
SendErrored == SendCallback /\ ~Reachable

\* after the failure: marked down, the message last in the queue, one more
\* checkExtension scheduled
Recovers(id) ==
  /\ ~isExtensionAvailable'
  /\ messageQueue' # <<>>
  /\ messageQueue'[Len(messageQueue')].id = id
  /\ pendingChecks' = pendingChecks + 1

\* C19: on every failure path of sendMessageNow (error callback or thrown
\* exception) the connection is marked down, the message is re-queued at
\* the tail of the pending queue and a fresh connection check is triggered.
C19_FailedSendRecovers ==
  [][/\ DrainThrew => Recovers(Head(messageQueue).id)
     /\ DirectThrew => Recovers(nextId)
     /\ SendErrored => Recovers(Head(inflight).id)]_vars

\* The error-callback path alone does all three.
C19_CallbackPathRecovers ==
  [][SendErrored => Recovers(Head(inflight).id)]_vars

\* The thrown-exception path marks down and re-queues at the tail.
C19_ThrowPathRequeues ==
  [][/\ DrainThrew =>
          /\ ~isExtensionAvailable'
          /\ messageQueue' = Append(Tail(messageQueue), Head(messageQueue))
          /\ pendingChecks' = pendingChecks
     /\ DirectThrew =>
          /\ ~isExtensionAvailable'
          /\ messageQueue' # <<>>
          /\ messageQueue'[Len(messageQueue')].id = nextId
          /\ pendingChecks' = pendingChecks]_vars

\* C20: a message leaves the pending queue only after its delivery has been
\* confirmed successful: a message whose send has been issued but not yet
\* confirmed is still an entry of the pending queue.
C20_QueuedUntilConfirmed ==
  [][\A i \in 1..Len(messageQueue) :
       messageQueue[i].id \notin QueuedIds'
         => messageQueue[i].id \in DeliveredIds']_vars

\* What the code does instead: a queued message is taken off the queue when
\* its send is issued, and is then in flight, back in the queue or delivered.
C20_ShiftedBeforeSend ==
  [][\A i \in 1..Len(messageQueue) :
       messageQueue[i].id \notin QueuedIds'
         => /\ i = 1 /\ draining
            /\ messageQueue[i].id \in InflightIds']_vars

(***************************************************************************)
(* Section 1h.  Claims about the drain loop and the send entry points.     *)
(***************************************************************************)
\* C21: a drain of the pending queue terminates and sends exactly the
\* messages queued when it started: every iteration of the loop takes one
\* message off the queue and puts none on it, so a message re-queued by a
\* send that fails during the drain is not processed by that drain.
C21_DrainConsumesSnapshot ==
  [][DrainStep =>
       /\ Len(messageQueue') = Len(messageQueue) - 1
       /\ messageQueue' = Tail(messageQueue)]_vars

\* When no send throws, each iteration does shorten the queue by its head.
C21_CleanDrainShrinks ==
  [][(DrainStep /\ ~DrainThrew) => messageQueue' = Tail(messageQueue)]_vars

\* When a send throws, the loop goes on with the message back in the queue.
C21_ThrowKeepsDraining ==
  [][DrainThrew =>
       /\ draining'
       /\ Len(messageQueue') = Len(messageQueue)
       /\ Head(messageQueue).id \in QueuedIds']_vars

\* sendPostureData or sendSessionStatus is called with the next message
Handed == nextId' = nextId + 1

\* C22: sendPostureData and sendSessionStatus append the message to the
\* tail of the pending queue and send nothing when the connection is down,
\* and hand the message to the runtime at once, without queueing it, when
\* the connection is up (a call that throws is the failed send of C19).
C22_QueueWhenDownSendWhenUp ==
  [][Handed =>
       /\ ~isExtensionAvailable =>
            /\ messageQueue' # <<>>
            /\ messageQueue'[Len(messageQueue')].id = nextId
            /\ SubSeq(messageQueue', 1, Len(messageQueue)) = messageQueue
            /\ inflight' = inflight
            /\ delivered' = delivered
       /\ (isExtensionAvailable /\ ~Broken) =>
            /\ inflight' # <<>>
            /\ inflight'[Len(inflight')].id = nextId
            /\ messageQueue' = messageQueue]_vars

\* C22's case: one message was sent at once while the connection was up and
\* is still in flight, a later one was queued while it was down.
C22_Witness ==
  \E i \in InflightIds, j \in QueuedIds :
    i \notin queuedDown /\ j \in queuedDown /\ i < j

(***************************************************************************)
(* Section 1i.  Claims about the retry bound.                              *)
(***************************************************************************)
\* a connection check ends without a connection
CheckFailed ==
  /\ ~Reachable
  /\ PingResolved \/ (DiscoverResolved /\ extensionId = Null)

\* checks scheduled or in progress
Outstanding == pendingChecks + nPing + nDiscover

\* the retries are used up and the bridge is down
Exhausted == retryCount = maxRetries /\ ~isExtensionAvailable

\* a check is scheduled or started that was not outstanding before
NewCheck == Outstanding' > Outstanding

\* at the limit a failing check schedules nothing and leaves the bridge down
GivesUpAtLimit ==
  (CheckFailed /\ retryCount = maxRetries)
     => /\ ~isExtensionAvailable'
        /\ retryCount' = maxRetries
        /\ Outstanding' = Outstanding - 1

Destroy ==
  /\ AtRest /\ ~destroyed
  /\ destroyed' = TRUE
  /\ monitorOn' = FALSE
  /\ UNCHANGED <<extensionId, isExtensionAvailable, messageQueue, retryCount,
                 initPending, nDiscover, nPing, pendingChecks, announceListener,
                 draining, inflight, nextId, syncVars, envVars>>
  /\ UNCHANGED <<voiceVars, plantVars, calcVars, scriptVars, noticeVars>>

\* The bridge once VideoFeed's mount effect has called checkExtension():
\* that call awaits its discovery ping, or found no chrome.runtime; every
\* check scheduled from here on is a setTimeout of the bridge.
TeardownInit ==
  /\ link \in {"up", "down", "broken"}
  /\ extensionId = Null
  /\ isExtensionAvailable = FALSE
  /\ messageQueue = <<>>
  /\ retryCount = 0
  /\ initPending = (link # "broken")
  /\ monitorOn = (link = "broken")
  /\ nDiscover = (IF link = "broken" THEN 0 ELSE 1)
  /\ nPing = 0
  /\ pendingChecks = 0
  /\ announceListener = FALSE
  /\ draining = FALSE
  /\ inflight = <<>>
  /\ nextId = 1
  /\ isStreaming = FALSE
  /\ isMonitoring = FALSE
  /\ toWeb = <<>>
  /\ lastReply = [status |-> "none"]
  /\ delivered = <<>>
  /\ queuedDown = {}
  /\ msgBudget = MaxFairMsgs
  /\ VoiceStart /\ frequency = "medium" /\ PlantStart /\ CalcStart
  /\ ScriptStart /\ NoticeStart

TeardownNext == BridgeNext \/ Destroy

SpecTeardown == TeardownInit /\ [][TeardownNext]_vars

\* C26: after destroy() no timer-driven work of the bridge runs any more:
\* neither the periodic connection monitor nor an already scheduled retry
\* or reconnect check performs a connection check.
C26_NoTimerWorkAfterDestroy ==
  [][destroyed => ~(MonitorTick \/ TimerFires)]_vars

\* destroy() clears the interval that is set when it is called, and nothing
\* else: the scheduled checks, the pending pings and the announce listener
\* are as before.
C26_DestroyClearsIntervalOnly ==
  [][Destroy =>
       /\ ~monitorOn'
       /\ pendingChecks' = pendingChecks
       /\ nPing' = nPing /\ nDiscover' = nDiscover
       /\ announceListener' = announceListener
       /\ initPending' = initPending]_vars

(***************************************************************************)
(* Section 1k.  Claims about what the bridge holds at rest.                *)
(***************************************************************************)
\* the identities sendPostureData and sendSessionStatus have accepted
AcceptedIds == 1..(nextId - 1)

\* C35: no message accepted by sendPostureData or sendSessionStatus is ever
\* lost: at every moment each accepted message is in the pending queue, in
\* flight awaiting its send callback, or has been delivered to the peer.
C35_NoAcceptedMessageLost ==
  AcceptedIds \subseteq (QueuedIds \cup InflightIds \cup DeliveredIds)

\* C35's case: a message that was sent at once while connected is back in
\* the queue after its send failed, while another message has been
\* delivered and every message of the run has been accepted.
C35_Witness ==
  /\ \E id \in QueuedIds : id \notin queuedDown
  /\ DeliveredIds # {}
  /\ AcceptedIds = 1..msgBudget

\* C38: whenever the bridge is at rest (no callback running) and its
\* connected flag is true, the extension id is known and the pending queue
\* is empty.
C38_ConnectedAtRest ==
  (AtRest /\ isExtensionAvailable)
    => (extensionId # Null /\ messageQueue = <<>>)

\* C38's case: messages were queued while disconnected, a check has
\* connected and its drain has handed all of them to the runtime.
C38_Witness ==
  /\ AtRest /\ isExtensionAvailable
  /\ extensionId = KnownId /\ messageQueue = <<>>
  /\ Cardinality(queuedDown) >= 2
  /\ queuedDown \subseteq (InflightIds \cup DeliveredIds)

(***************************************************************************)
(* Section 2.  useVoiceCoach (settings.enabled, a synthesizer present).    *)
(* providePostureFeedback and speak are functions on a record of the refs, *)
(* the timers and the synthesizer's queue; "said" collects the texts the   *)
(* call passed to speak(), dropped or not.                                 *)
(***************************************************************************)
MaxTime == 44        \* the clock stops at Epoch + 19 s
MaxAnnounce == 1     \* announcements made in one run

Scores == {20, 35, 50, 80}
Frequencies == {"low", "medium", "high"}

Declining == "Your posture is declining. Sit up straighter."
Better == "Better! Keep improving your posture."
Adjust == "Your posture needs some adjustment."
Excellent == "Excellent posture! Keep it up."
Critical == "Critical! Your posture needs immediate correction."
Session == "NeuralStride monitoring activated. I'll help you maintain healthy posture throughout your session."

Coach == [state |-> lastPostureState, since |-> stateChangeTimeRef,
          spoken |-> hasSpokenForStateRef, poor |-> consecutivePoorCount,
          timers |-> speakTimers, synth |-> synthQueue, said |-> <<>>]

CommitCoach(c) ==
  /\ lastPostureState' = c.state
  /\ stateChangeTimeRef' = c.since
  /\ hasSpokenForStateRef' = c.spoken
  /\ consecutivePoorCount' = c.poor
  /\ speakTimers' = c.timers
  /\ synthQueue' = c.synth

\* speak: inside the 3000 ms window the request is dropped; otherwise
\* synth.cancel() and a 100 ms timer that will call synth.speak.
\* lastSpeakTime is not written here, only in utterance.onstart.
speak(c, text) ==
  LET r == [c EXCEPT !.said = Append(@, text)]
  IN  IF now - lastSpeakTime < Ms(3000)
      THEN r
      ELSE [r EXCEPT !.synth = <<>>,
                     !.timers = Append(@, [text |-> text, at |-> now])]

Bucket(postureScore) ==
  IF postureScore >= 70 THEN "good"
  ELSE IF postureScore >= 45 THEN "fair"
  ELSE "poor"

delayMap(f) ==
  CASE f = "low" -> Ms(10000)
    [] f = "medium" -> Ms(7000)
    [] f = "high" -> Ms(5000)

\* "State change detected"
stateChange(c, currentState) ==
  IF currentState # c.state
  THEN [c EXCEPT !.since = now, !.spoken = FALSE, !.state = currentState]
  ELSE c

\* Faulty variant: speaking does not mark the bucket as spoken for
normalFeedback_Unmarked(c, currentState) ==
  IF now - c.since >= delayMap(frequency) /\ ~c.spoken
  THEN CASE currentState = "poor" ->
              [speak(c, Declining) EXCEPT !.poor = @ + 1]
         [] currentState = "fair" ->
              [speak(c, IF c.state = "poor" THEN Better ELSE Adjust)
                 EXCEPT !.poor = 0]
         [] currentState = "good" ->
              [speak(c, Excellent) EXCEPT !.poor = 0]
  ELSE c

\* Faulty variant: the delay of the frequency is not waited for
normalFeedback_Ungated(c, currentState) ==
  IF ~c.spoken
  THEN LET h == [c EXCEPT !.spoken = TRUE]
       IN  CASE currentState = "poor" ->
                  [speak(h, Declining) EXCEPT !.poor = @ + 1]
             [] currentState = "fair" ->
                  [speak(h, IF h.state = "poor" THEN Better ELSE Adjust)
                     EXCEPT !.poor = 0]
             [] currentState = "good" ->
                  [speak(h, Excellent) EXCEPT !.poor = 0]
  ELSE c

\* "Only speak after state has been stable for the delay period"
normalFeedback(c, currentState) ==
  IF now - c.since >= delayMap(frequency) /\ ~c.spoken
  THEN LET h == [c EXCEPT !.spoken = TRUE]
       IN  CASE currentState = "poor" ->
                  [speak(h, Declining) EXCEPT !.poor = @ + 1]
             [] currentState = "fair" ->
                  [speak(h, IF h.state = "poor" THEN Better ELSE Adjust)
                     EXCEPT !.poor = 0]
             [] currentState = "good" ->
                  [speak(h, Excellent) EXCEPT !.poor = 0]
  ELSE c

\* Faulty variant: no alert
emergencyAlert_Off(c, postureScore) == c

\* Faulty variant: the alert does not mark the bucket as spoken for
emergencyAlert_Unmarked(c, postureScore) ==
  IF postureScore < 30 /\ now - c.since > Ms(3000) /\ (~c.spoken \/ c.poor >= 3)
  THEN [speak(c, Critical) EXCEPT !.poor = 0]
  ELSE c

\* "Emergency alert for critical posture (immediate, overrides delay)"
emergencyAlert(c, postureScore) ==
  IF postureScore < 30 /\ now - c.since > Ms(3000) /\ (~c.spoken \/ c.poor >= 3)
  THEN [speak(c, Critical) EXCEPT !.spoken = TRUE, !.poor = 0]
  ELSE c

providePostureFeedback(c, postureScore) ==
  emergencyAlert(
    normalFeedback(stateChange(c, Bucket(postureScore)), Bucket(postureScore)),
    postureScore)

Has(seq, text) == \E i \in 1..Len(seq) : seq[i] = text

\* The stream of the scenario: samples one second apart, 80 until the
\* score drops to 20 and stays there.
SampleDue == now % Ms(1000) = 0
runAfter(postureScore) ==
  CASE run = "none" /\ postureScore = 80 -> "good"
    [] run = "good" /\ postureScore = 80 -> "good"
    [] run = "good" /\ postureScore = 20 -> "crit"
    [] run = "crit" /\ postureScore = 20 -> "crit"
    [] OTHER -> "broken"

\* providePostureFeedback(postureScore); samples are taken on whole seconds
Feedback(postureScore) ==
  /\ SampleDue /\ call = NoCall
  /\ LET entered == stateChange(Coach, Bucket(postureScore))
         c == providePostureFeedback(Coach, postureScore)
         changed == Bucket(postureScore) # lastPostureState
     IN  /\ CommitCoach(c)
         /\ call' = [score |-> postureScore, timeInState |-> now - c.since,
                     hadSpoken |-> entered.spoken,
                     poorAtAlert |-> normalFeedback(entered, Bucket(postureScore)).poor,
                     said |-> c.said]
         /\ enteredFrom' = IF changed THEN lastPostureState ELSE enteredFrom
         /\ emergencies' = (IF changed THEN 0 ELSE emergencies)
                           + (IF Has(c.said, Critical) THEN 1 ELSE 0)
         /\ run' = runAfter(postureScore)
  /\ UNCHANGED <<lastSpeakTime, frequency, now, lastHanded, announced>>
  /\ UNCHANGED notVoice

\* announceSessionStart, announceSessionEnd, provideBreakReminder,
\* provideEncouragement: one speak() each
AnnounceSession ==
  /\ announced < MaxAnnounce
  /\ announced' = announced + 1
  /\ CommitCoach(speak(Coach, Session))
  /\ run' = "broken"
  /\ UNCHANGED <<lastSpeakTime, frequency, now, call, lastHanded, enteredFrom,
                 emergencies>>
  /\ UNCHANGED notVoice

\* speak's setTimeout callback: synth.speak(utterance)
HandOff ==
  /\ speakTimers # <<>>
  /\ Head(speakTimers).at < now
  /\ speakTimers' = Tail(speakTimers)
  /\ synthQueue' = Append(synthQueue, Head(speakTimers).text)
  /\ lastHanded' = now
  /\ UNCHANGED <<coachVars, frequency, now, call, enteredFrom, emergencies, run,
                 announced>>
  /\ UNCHANGED notVoice

\* utterance.onstart
OnStart ==
  /\ synthQueue # <<>>
  /\ lastSpeakTime' = now
  /\ synthQueue' = Tail(synthQueue)
  /\ UNCHANGED <<lastPostureState, stateChangeTimeRef, hasSpokenForStateRef,
                 consecutivePoorCount, frequency, now, speakTimers, call,
                 lastHanded, enteredFrom, emergencies, run, announced>>
  /\ UNCHANGED notVoice

\* utterance.onerror for an utterance that never started
OnError ==
  /\ synthQueue # <<>>
  /\ synthQueue' = Tail(synthQueue)
  /\ UNCHANGED <<coachVars, frequency, now, speakTimers, call, lastHanded,
                 enteredFrom, emergencies, run, announced>>
  /\ UNCHANGED notVoice

\* 500 ms pass.  A 100 ms timer has fired before the next step of the clock,
\* and an utterance handed over has started or failed before the one after;
\* a run of the scenario is over when a second passes without a sample.
Tick ==
  /\ now < MaxTime
  /\ \A i \in 1..Len(speakTimers) : speakTimers[i].at = now
  /\ synthQueue # <<>> => lastHanded = now
  /\ now' = now + 1
  /\ call' = NoCall
  /\ run' = IF run \in {"good", "crit"} /\ SampleDue /\ call = NoCall
            THEN "broken" ELSE run
  /\ UNCHANGED <<coachVars, frequency, speakTimers, synthQueue, lastHanded,
                 enteredFrom, emergencies, announced>>
  /\ UNCHANGED notVoice

VoiceInit ==
  /\ VoiceStart
  /\ frequency \in Frequencies
  /\ BridgeStart(0) /\ link = "broken"
  /\ PlantStart
  /\ CalcStart
  /\ ScriptStart /\ NoticeStart

VoiceNext ==
  \/ \E postureScore \in Scores : Feedback(postureScore)
  \/ AnnounceSession
  \/ HandOff
  \/ OnStart
  \/ OnError
  \/ Tick

SpecVoice == VoiceInit /\ [][VoiceNext]_vars

(***************************************************************************)
(* Section 2a.  Claims about the voice coach.                              *)
(***************************************************************************)
Evaluated == call # NoCall
IsHandOff == Len(speakTimers') < Len(speakTimers)

\* C6: no two messages are handed to the speech synthesizer less than 3 s
\* apart, whatever the scores and the timing of the synthesizer's callbacks.
C6_MinSpacing ==
  [][IsHandOff => (lastHanded = NeverHanded \/ now - lastHanded >= Ms(3000))]_vars

\* C7: an evaluation with score < 30, more than 3 s in the bucket and no
\* message fired for the bucket yet requests the critical message.
C7_EmergencyOverridesGate ==
  (Evaluated /\ call.score < 30 /\ call.timeInState > Ms(3000) /\ ~call.hadSpoken)
    => Has(call.said, Critical)

\* C8: in one stay in a bucket the critical message is requested at most
\* once, or once more when three consecutive poor-bucket messages preceded
\* it; every request of the critical message leaves the consecutive-poor
\* counter at 0.
C8_EmergencyOncePerStay ==
  (Evaluated /\ Has(call.said, Critical))
    => /\ consecutivePoorCount = 0
       /\ \/ emergencies = 1
          \/ emergencies = 2 /\ call.poorAtAlert >= 3

\* C8's case: the critical message is requested through the
\* three-consecutive override, after the bucket's normal message, and the
\* counter is back at 0.
C8_Witness ==
  /\ Evaluated /\ Has(call.said, Critical)
  /\ call.poorAtAlert >= 3
  /\ consecutivePoorCount = 0

InScenario == frequency = "high" /\ run = "crit" /\ Evaluated

\* C9 as stated: with frequency high, one sample per second and scores going
\* from good to a constant 20, the first poor-bucket message fires when 5 s
\* have elapsed in the bucket and not earlier.
C9_FirstPoorAtGate ==
  InScenario => /\ call.said # <<>> => call.timeInState >= Ms(5000)
                /\ call.timeInState = Ms(5000) => call.said # <<>>

\* C9 amended: in that scenario the only poor-bucket message is the critical
\* one, requested and scheduled at the sample 4 s after the bucket was
\* entered (the first sample more than 3 s in the bucket); nothing is
\* requested at 5 s.
C9_FirstPoorIsCritical ==
  InScenario
    => IF call.timeInState = Ms(4000)
       THEN /\ call.said = <<Critical>>
            /\ Has(speakTimers, [text |-> Critical, at |-> now])
       ELSE call.said = <<>>

\* C9's case: the sample 4 s into the poor bucket has been evaluated.
C9_Witness ==
  /\ InScenario
  /\ call.score = 20 /\ call.timeInState = Ms(4000)
  /\ call.said = <<Critical>>

\* C10: speaking for the fair bucket, the coach says the encouragement when
\* fair was entered from poor and the needs-adjustment text otherwise.
C10_FairVariant ==
  (Evaluated /\ lastPostureState = "fair" /\ call.said # <<>>)
    => call.said = <<IF enteredFrom = "poor" THEN Better ELSE Adjust>>

(***************************************************************************)
(* Section 2b.  Claims about the normal bucket messages.                   *)
(***************************************************************************)
NormalTexts == {Declining, Better, Adjust, Excellent}
NormalSaid == \E i \in 1..Len(call.said) : call.said[i] \in NormalTexts

\* a call of providePostureFeedback
FeedbackCall == call = NoCall /\ call' # NoCall

\* C28: after a normal message has been spoken for a bucket, no further
\* normal message is requested until the bucket changes: a call that
\* requests one sets hasSpokenForStateRef, a call in the same bucket with
\* the flag set requests none and leaves it set, and a call that enters a
\* new bucket sets stateChangeTimeRef to now and clears the flag.
C28_OneNormalPerStay ==
  [][FeedbackCall =>
       /\ NormalSaid' => hasSpokenForStateRef'
       /\ (lastPostureState' = lastPostureState /\ hasSpokenForStateRef)
            => (~NormalSaid' /\ hasSpokenForStateRef')
       /\ lastPostureState' # lastPostureState
            => (stateChangeTimeRef' = now /\ ~hasSpokenForStateRef')]_vars

\* C28's case: a call found the good bucket already spoken for, long after
\* the delay, and requested nothing.
C28_Witness ==
  /\ Evaluated /\ call.hadSpoken /\ call.said = <<>>
  /\ lastPostureState = "good"
  /\ call.timeInState > delayMap(frequency) + Ms(3000)

\* C29: no normal bucket message is requested before the delay of the
\* configured frequency (low 10 s, medium 7 s, high 5 s) has elapsed since
\* the current bucket was entered.
C29_NormalAfterDelay ==
  (Evaluated /\ NormalSaid) => call.timeInState >= delayMap(frequency)

\* C29's case: with frequency low the message for the good bucket is
\* requested by the call made 10 s after the bucket was entered.
C29_Witness ==
  /\ Evaluated /\ frequency = "low"
  /\ call.said = <<Excellent>>
  /\ call.timeInState = Ms(10000)

(***************************************************************************)
(* Section 3.  VirtualPlant: the health model.  Health is kept in tenths   *)
(* (500 is plantHealth 50), times in whole seconds.                        *)
(***************************************************************************)
MaxElapsed == 6      \* longer gaps since the last update count as this long

Period == 2          \* setInterval(..., 2000)
PlantScores == {10, 30, 40, 50, 60, 75, 90}

Min(a, b) == IF a < b THEN a ELSE b
Max(a, b) == IF a > b THEN a ELSE b

\* Faulty variant: no score makes the plant grow or wilt
changeRate_Flat(score) == 0

\* changeRate, in tenths of health per second
changeRate(score) ==
  IF score >= 85 THEN 8
  ELSE IF score >= 70 THEN 5
  ELSE IF score >= 55 THEN 2
  ELSE IF score >= 45 THEN -1
  ELSE IF score >= 35 THEN -5
  ELSE IF score >= 25 THEN -10
  ELSE -18

\* Faulty variant: the new health is not clamped
grow_Unclamped(prev, score, deltaTime) == prev + changeRate(score) * deltaTime

\* the monitoring interval's setPlantHealth updater
grow(prev, score, deltaTime) ==
  Max(0, Min(1000, prev + changeRate(score) * deltaTime))

\* Faulty variant: the reset interval steps past 50.
drift_Overshoots(prev) ==
  IF prev > 500 THEN prev - 5
  ELSE IF prev < 500 THEN prev + 5
  ELSE prev

\* the reset interval's setPlantHealth updater
drift(prev) ==
  IF prev > 500 THEN Max(500, prev - 5)
  ELSE IF prev < 500 THEN Min(500, prev + 5)
  ELSE prev

\* the stage effect's threshold function
stageOf(health) ==
  IF health >= 850 THEN 5
  ELSE IF health >= 680 THEN 4
  ELSE IF health >= 480 THEN 3
  ELSE IF health >= 250 THEN 2
  ELSE 1

\* the monitoring interval fires
HealthTick ==
  /\ plantMonitoring /\ intervalAge = Period
  /\ plantHealth' = grow(plantHealth, plantScore, sinceUpdate)
  /\ sinceUpdate' = 0
  /\ intervalAge' = 0
  /\ stagePending' = (stagePending \/ plantHealth' # plantHealth)
  /\ UNCHANGED <<plantStage, plantScore, plantMonitoring>>
  /\ UNCHANGED notPlant

\* the reset interval fires
ResetTick ==
  /\ ~plantMonitoring /\ intervalAge = Period
  /\ plantHealth' = drift(plantHealth)
  /\ intervalAge' = 0
  /\ stagePending' = (stagePending \/ plantHealth' # plantHealth)
  /\ UNCHANGED <<plantStage, plantScore, plantMonitoring, sinceUpdate>>
  /\ UNCHANGED notPlant

\* the effect on [plantHealth]
StageEffect ==
  /\ stagePending
  /\ plantStage' = stageOf(plantHealth)
  /\ stagePending' = FALSE
  /\ UNCHANGED <<plantHealth, plantScore, plantMonitoring, sinceUpdate, intervalAge>>
  /\ UNCHANGED notPlant

\* a render with new props: the effect on [postureScore, isMonitoring]
\* clears its interval and sets a new one
PropsChange(score, monitoring) ==
  /\ <<score, monitoring>> # <<plantScore, plantMonitoring>>
  /\ plantScore' = score
  /\ plantMonitoring' = monitoring
  /\ intervalAge' = 0
  /\ UNCHANGED <<plantHealth, plantStage, sinceUpdate, stagePending>>
  /\ UNCHANGED notPlant

\* one second passes; a due interval and a pending effect have run first
PlantClock ==
  /\ intervalAge < Period /\ ~stagePending
  /\ intervalAge' = intervalAge + 1
  /\ sinceUpdate' = Min(sinceUpdate + 1, MaxElapsed)
  /\ UNCHANGED <<plantHealth, plantStage, plantScore, plantMonitoring, stagePending>>
  /\ UNCHANGED notPlant

PlantInit ==
  /\ PlantStart
  /\ BridgeStart(0) /\ link = "broken"
  /\ VoiceStart /\ frequency = "medium"
  /\ CalcStart
  /\ ScriptStart /\ NoticeStart

PlantNext ==
  \/ HealthTick
  \/ ResetTick
  \/ StageEffect
  \/ \E score \in PlantScores, monitoring \in BOOLEAN : PropsChange(score, monitoring)
  \/ PlantClock

SpecPlant == PlantInit /\ [][PlantNext]_vars

\* Time passes, intervals fire when due and effects run.
PlantFairness ==
  /\ WF_vars(HealthTick)
  /\ WF_vars(ResetTick)
  /\ WF_vars(StageEffect)
  /\ WF_vars(PlantClock)

SpecPlantFair == PlantInit /\ [][PlantNext]_vars /\ PlantFairness

(***************************************************************************)
(* Section 3a.  Claims about the health model.                             *)
(***************************************************************************)
Held(score) == plantMonitoring /\ plantScore = score

\* C11: with monitoring active and a constant score of 90 health never
\* decreases from one tick to the next and reaches 100, where it stays; with
\* a constant score of 10 it never increases and reaches 0, where it stays.
C11_ConstantScore ==
  /\ [][/\ Held(90) => plantHealth' >= plantHealth
        /\ Held(10) => plantHealth' <= plantHealth]_vars
  /\ <>[]Held(90) => <>[](plantHealth = 1000)
  /\ <>[]Held(10) => <>[](plantHealth = 0)

\* C11's case: a tick with score 90 has just clamped health at 100.
C11_Witness ==
  /\ Held(90) /\ plantHealth = 1000
  /\ sinceUpdate = 0 /\ intervalAge = 0

\* C12: health is within [0,100] and stage within 1..5 in every reachable
\* state.
C12_Ranges ==
  /\ plantHealth \in 0..1000
  /\ plantStage \in 1..5

\* C12's case: a tick whose change would have left the range has been
\* clamped at 0, and the stage effect has run for it.
C12_Witness ==
  /\ plantHealth = 0 /\ plantStage = 1
  /\ plantMonitoring /\ sinceUpdate = 0 /\ ~stagePending

(***************************************************************************)
(* Section 3b.  Claims about the tick of the health model.                 *)
(***************************************************************************)
\* monitoring is active before and after the step
StaysMonitoring == plantMonitoring /\ plantMonitoring'

\* C30: while monitoring is active, health is updated once per fixed tick
\* period using the current score; a change of the posture score between
\* two ticks does not postpone or suppress the next tick: the time already
\* waited toward the next tick is set back by nothing but the tick itself.
C30_TickNotPostponed ==
  [][StaysMonitoring =>
       /\ HealthTick => plantHealth' = grow(plantHealth, plantScore, sinceUpdate)
       /\ ~HealthTick => intervalAge' >= intervalAge]_vars

\* With the score unchanged the interval runs on until it fires.
C30_SteadyScoreTicks ==
  [][(StaysMonitoring /\ plantScore' = plantScore /\ ~HealthTick)
       => intervalAge' >= intervalAge]_vars

\* A new score while monitoring restarts the interval: the wait begins anew
\* and the time since the last update is kept.
C30_ScoreChangeRestarts ==
  [][(StaysMonitoring /\ plantScore' # plantScore)
       => (intervalAge' = 0 /\ sinceUpdate' = sinceUpdate
           /\ plantHealth' = plantHealth)]_vars

(***************************************************************************)
(* Section 3c.  Claims about the stage and about the drift to neutral.     *)
(***************************************************************************)
\* C31: in every reachable state, the initial one included, stage equals the
\* threshold function of the current health (5 from 85, 4 from 68, 3 from
\* 48, 2 from 25, otherwise 1).
C31_StageMatchesHealth == plantStage = stageOf(plantHealth)

\* What the code does keep: once the effect on [plantHealth] has run for the
\* current health, stage is the threshold function of health.
C31_StageSettles == ~stagePending => plantStage = stageOf(plantHealth)

\* monitoring stays inactive and the score prop keeps one value; the parent
\* passes isStreaming && isPersonDetected, and metrics change only with
\* frames in which a person is detected
Idle(score) == ~plantMonitoring /\ plantScore = score

\* the distance |health - 50|
FromNeutral(health) == IF health >= 500 THEN health - 500 ELSE 500 - health

\* C32: while monitoring is inactive no step increases the distance between
\* health and 50 or takes health across 50, health at 50 stays at 50, and
\* health eventually equals 50 for good.
C32_DriftToNeutral ==
  /\ [][~plantMonitoring =>
          /\ FromNeutral(plantHealth') <= FromNeutral(plantHealth)
          /\ plantHealth > 500 => plantHealth' >= 500
          /\ plantHealth < 500 => plantHealth' <= 500
          /\ plantHealth = 500 => plantHealth' = 500]_vars
  /\ \A score \in PlantScores :
       <>[]Idle(score) => <>[](plantHealth = 500)

\* C32's case: the reset interval has just brought health to 50 (the stage
\* effect for that change is still due, and no monitoring tick ran since the
\* clock last advanced).
C32_Witness ==
  /\ ~plantMonitoring /\ plantHealth = 500
  /\ stagePending /\ sinceUpdate > 0 /\ intervalAge = 0

(***************************************************************************)
(* Section 3d.  The elapsed time of the first tick after inactivity.       *)
(***************************************************************************)
\* the render in which isMonitoring turns true
BecomesActive == ~plantMonitoring /\ plantMonitoring'

\* C37: the elapsed time a monitoring tick multiplies by changeRate covers
\* only the time since the previous monitoring tick or since monitoring
\* became active: at the moment monitoring becomes active the elapsed time
\* the next tick will use is zero, so the first tick after an inactive period
\* changes health by no more than a tick that follows another tick.
C37_ElapsedStartsAtActivation ==
  [][BecomesActive => sinceUpdate' = 0]_vars

\* What the code does: lastUpdateTime is written by the monitoring tick
\* alone, so time that passes while monitoring is inactive is kept, neither
\* the reset tick nor the activation clears it, and the first monitoring
\* tick multiplies changeRate by all of it.
C37_InactiveTimeCounts ==
  [][/\ (~plantMonitoring /\ PlantClock)
          => sinceUpdate' = Min(sinceUpdate + 1, MaxElapsed)
     /\ (ResetTick \/ BecomesActive) => sinceUpdate' = sinceUpdate
     /\ HealthTick
          => plantHealth' = grow(plantHealth, plantScore, sinceUpdate)]_vars

(***************************************************************************)
(* Section 4.  The per-frame functions.  Angles are in tenths of a degree  *)
(* (Deg), scores and stress values in twentieths of a point (Pts), so that *)
(* every product of the code is an integer here.  Inputs are numbers.      *)
(***************************************************************************)
MaxAngle == 185      \* angle arguments run from -5 to this many degrees

Deg(d) == 10 * d
Pts(p) == 20 * p
Abs(x) == IF x < 0 THEN 0 - x ELSE x

\* Math.round of a non-negative value given in 1/unit
Round(x, unit) == (2 * x + unit) \div (2 * unit)

\* Faulty variant: the band above the ideal range has no penalty
cervicalScore_Flat(angle) == IF angle >= Deg(150) THEN Pts(100) ELSE 0

\* calculatePostureScore: the cervicalScore bands
cervicalScore(angle) ==
  IF angle >= Deg(155) /\ angle <= Deg(165) THEN Pts(100)
  ELSE IF angle >= Deg(150) THEN Pts(95) - 4 * Abs(angle - Deg(160))
  ELSE IF angle >= Deg(145) THEN Pts(85) - 3 * (Deg(150) - angle)
  ELSE IF angle >= Deg(135) THEN Pts(70) - 4 * (Deg(145) - angle)
  ELSE IF angle >= Deg(125) THEN Pts(50) - 5 * (Deg(135) - angle)
  ELSE IF angle >= Deg(115) THEN Pts(25) - 4 * (Deg(125) - angle)
  ELSE Max(0, Pts(10) - (Deg(115) - angle))

\* Math.max(0, 100 - headForward * 1.5)
headForwardScore(headForward) == Max(0, Pts(100) - 30 * headForward)

\* cervicalScore * 0.6 + shoulderAlignment * 0.2 + headForwardScore * 0.2,
\* in 1/200 of a point
totalScore(angle, shoulderAlignment, headForward) ==
  6 * cervicalScore(angle) + 40 * shoulderAlignment
    + 2 * headForwardScore(headForward)

\* Faulty variant: rounded but not clamped
calculatePostureScore_Unclamped(angle, shoulderAlignment, headForward) ==
  (totalScore(angle, shoulderAlignment, headForward) + 100) \div 200

\* Math.round(Math.max(0, Math.min(100, totalScore)))
calculatePostureScore(angle, shoulderAlignment, headForward) ==
  Round(Max(0, Min(200 * 100, totalScore(angle, shoulderAlignment, headForward))),
        200)

AngleInputs == Deg(-5)..Deg(MaxAngle)
MetricInputs == {-50, 0, 37, 100, 150}

ScoreProbes ==
  [fn : {"calculatePostureScore"}, cervicalAngle : AngleInputs,
   shoulderAlignment : MetricInputs, headForward : MetricInputs]

CallPostureScore ==
  /\ probe.fn = "calculatePostureScore" /\ result = NoResult
  /\ result' = [returned |-> TRUE,
                cervicalScore |-> cervicalScore(probe.cervicalAngle),
                postureScore |->
                  calculatePostureScore(probe.cervicalAngle,
                                        probe.shoulderAlignment, probe.headForward)]
  /\ UNCHANGED probe
  /\ UNCHANGED notCalc

\* SpineHeatmap: calculateCervicalStress
calculateCervicalStress(angle) ==
  IF angle >= Deg(155) /\ angle <= Deg(165) THEN Pts(5)
  ELSE IF angle > Deg(165) THEN Min(Pts(30), Pts(5) + 8 * (angle - Deg(165)))
  ELSE IF angle >= Deg(150) THEN Pts(15) + 6 * (Deg(155) - angle)
  ELSE IF angle >= Deg(145) THEN Pts(30) + 10 * (Deg(150) - angle)
  ELSE IF angle >= Deg(135) THEN Pts(55) + 8 * (Deg(145) - angle)
  ELSE IF angle >= Deg(125) THEN Pts(95) + (Deg(135) - angle)
  ELSE Pts(100)

\* Faulty variant: the sum is returned without the cap at 100
calculateThoracicStress_Uncapped(score, angle) ==
  12 * Max(0, 100 - score)
    + (IF angle < Deg(145) THEN Min(Pts(40), 4 * (Deg(145) - angle)) ELSE 0)

\* SpineHeatmap: calculateThoracicStress
calculateThoracicStress(score, angle) ==
  LET baseStress == 12 * Max(0, 100 - score)
      cascaded == IF angle < Deg(145)
                  THEN baseStress + Min(Pts(40), 4 * (Deg(145) - angle))
                  ELSE baseStress
  IN  Min(Pts(100), cascaded)

\* SpineHeatmap: calculateLumbarStress
calculateLumbarStress(score) ==
  IF score >= 80 THEN Pts(10)
  ELSE IF score >= 70 THEN Pts(15) + 30 * (80 - score)
  ELSE IF score >= 60 THEN Pts(30) + 40 * (70 - score)
  ELSE IF score >= 50 THEN Pts(50) + 50 * (60 - score)
  ELSE IF score >= 40 THEN Pts(75) + 40 * (50 - score)
  ELSE Min(Pts(100), Pts(95) + 10 * (40 - score))

MaxScore == 120      \* score arguments run from -20 to this
ScoreInputs == -20..MaxScore

StressProbes ==
  [fn : {"stress"}, postureScore : ScoreInputs, cervicalAngle : AngleInputs]

\* the heatmap effect computes the three stress levels
CallStress ==
  /\ probe.fn = "stress" /\ result = NoResult
  /\ result' = [returned |-> TRUE,
                cervicalStress |-> calculateCervicalStress(probe.cervicalAngle),
                thoracicStress |->
                  calculateThoracicStress(probe.postureScore, probe.cervicalAngle),
                lumbarStress |-> calculateLumbarStress(probe.postureScore)]
  /\ UNCHANGED probe
  /\ UNCHANGED notCalc

\* Landmark coordinates are in hundredths of the frame.  A landmark set is
\* a function from the indices it has to points.
Required == {0, 7, 8, 11, 12, 23, 24}
Pt(px, py) == [x |-> px, y |-> py]

\* A person seen from the side: shoulders around (50,50) and 2 * tilt out of
\* level, hips below them, both ears at one point, the nose at noseX.
Pose(ear, tilt, noseX) ==
  [i \in Required |->
     CASE i = 0 -> Pt(noseX, 30)
       [] i \in {7, 8} -> ear
       [] i = 11 -> Pt(50, 50 - tilt)
       [] i = 12 -> Pt(50, 50 + tilt)
       [] i \in {23, 24} -> Pt(50, 80)]

Without(landmarks, gone) == [i \in (DOMAIN landmarks) \ gone |-> landmarks[i]]

Poses ==
  {Pose(ear, tilt, noseX) :
     ear \in {Pt(50, 30), Pt(70, 30), Pt(70, 50), Pt(50, 50)},
     tilt \in {0, 1, 10}, noseX \in {50, 60, 110}}

\* Reading .x or .y of a landmark the set does not have throws a TypeError.
Reads(landmarks, indices) == indices \subseteq DOMAIN landmarks

\* Math.acos(clampedCos) * (180 / Math.PI), for the vectors a and b of the
\* poses above: with d the dot product and m the product of the squared
\* magnitudes, cos^2 = d^2 / m is 0, 1/4, 1/2, 3/4 or 1.
angleDeg(a, b) ==
  LET d == a.x * b.x + a.y * b.y
      m == (a.x * a.x + a.y * a.y) * (b.x * b.x + b.y * b.y)
  IN  IF m = 0 THEN 90
      ELSE CASE d = 0 -> 90
             [] d * d = m -> IF d > 0 THEN 0 ELSE 180
             [] 2 * d * d = m -> IF d > 0 THEN 45 ELSE 135
             [] 4 * d * d = m -> IF d > 0 THEN 60 ELSE 120
             [] 4 * d * d = 3 * m -> IF d > 0 THEN 30 ELSE 150

\* calculateCervicalAngle; the vectors are twice the code's (sums of the
\* left and right landmark instead of their averages), in degrees
calculateCervicalAngle(l) ==
  LET ear == Pt(l[7].x + l[8].x, l[7].y + l[8].y)
      shoulder == Pt(l[11].x + l[12].x, l[11].y + l[12].y)
      hip == Pt(l[23].x + l[24].x, l[23].y + l[24].y)
  IN  angleDeg(Pt(ear.x - shoulder.x, ear.y - shoulder.y),
               Pt(hip.x - shoulder.x, hip.y - shoulder.y))

\* calculateShoulderAlignment: Math.round(Math.max(0, 100 - shoulderDiff * 500))
calculateShoulderAlignment(l) == Max(0, 100 - 5 * Abs(l[11].y - l[12].y))

\* calculateHeadForwardDistance: Math.min(100, Math.round(forwardDistance * 200))
calculateHeadForwardDistance(l) ==
  Min(100, Abs(2 * l[0].x - (l[11].x + l[12].x)))

ZeroMetrics ==
  [postureScore |-> 0, cervicalAngle |-> 0, isPersonDetected |-> FALSE,
   shoulderAlignment |-> 0, headForward |-> 0]

Threw == [returned |-> TRUE, threw |-> TRUE]
Returned(v) == [returned |-> TRUE, threw |-> FALSE, value |-> v]

\* detectPose, given whether the landmarker is ready, whether the canvas
\* has a 2d context, and results.landmarks (a sequence of landmark sets)
detectPose(ready, ctx, landmarks) ==
  IF ~ready THEN Returned(Null)
  ELSE IF ctx /\ Len(landmarks) > 0
  THEN LET l == landmarks[1]
       IN  IF ~Reads(l, {7, 8, 11, 12, 23, 24}) \/ ~Reads(l, {11, 12})
              \/ ~Reads(l, {0, 11, 12})
           THEN Threw
           ELSE LET cervicalAngle == calculateCervicalAngle(l)
                    shoulderAlignment == calculateShoulderAlignment(l)
                    headForward == calculateHeadForwardDistance(l)
                IN  Returned(
                      [postureScore |->
                         calculatePostureScore(Deg(cervicalAngle),
                                               shoulderAlignment, headForward),
                       cervicalAngle |-> Deg(cervicalAngle),
                       isPersonDetected |-> TRUE,
                       shoulderAlignment |-> shoulderAlignment,
                       headForward |-> headForward])
  ELSE Returned(ZeroMetrics)

LandmarkInputs ==
  {<<>>} \cup {<<Without(pose, gone)>> :
                 pose \in Poses, gone \in {{}} \cup {{i} : i \in Required}}

PoseProbes ==
  [fn : {"detectPose"}, ready : BOOLEAN, ctx : BOOLEAN, landmarks : LandmarkInputs]

\* processFrame calls detectPose
CallDetectPose ==
  /\ probe.fn = "detectPose" /\ result = NoResult
  /\ result' = detectPose(probe.ready, probe.ctx, probe.landmarks)
  /\ UNCHANGED probe
  /\ UNCHANGED notCalc

\* The service worker's onMessageExternal listener (v2.1) as a function of
\* the worker's variables sw and the request: the new variables, the
\* notifyWebApp actions and the sendResponse value.
NoData == [undefined |-> TRUE]

\* updatePlantIcon's plantState
plantStateOf(monitoring, score) ==
  IF ~monitoring \/ score = 0 THEN "dormant"
  ELSE IF score >= 85 THEN "bloom"
  ELSE IF score >= 70 THEN "flowering"
  ELSE IF score >= 50 THEN "growing"
  ELSE IF score >= 30 THEN "sprout"
  ELSE "wilting"

Handled(sw, notes, reply) == [returned |-> TRUE, sw |-> sw, notes |-> notes, reply |-> reply]

\* Faulty variant: the v2.0 listener reads request.data.postureScore
\* unguarded; without data it throws and nothing is answered
updatePostureRequest_Unvalidated(sw, data) ==
  IF data = NoData
  THEN Handled(sw, <<>>, [status |-> "none"])
  ELSE Handled([isMonitoring |-> TRUE, currentScore |-> data.postureScore,
                plantState |-> plantStateOf(TRUE, data.postureScore)],
               <<>>, [status |-> "updated", currentScore |-> data.postureScore])

\* request.action === 'updatePosture'
updatePostureRequest(sw, data) ==
  IF data = NoData
  THEN Handled(sw, <<>>, [status |-> "error", message |-> "No data provided"])
  ELSE Handled([isMonitoring |-> TRUE, currentScore |-> data.postureScore,
                plantState |-> plantStateOf(TRUE, data.postureScore)],
               <<>>, [status |-> "updated", currentScore |-> data.postureScore])

\* Faulty variant: the handler notifies whether or not the flag changed
sessionStatusRequest_AlwaysNotifies(sw, isActive) ==
  Handled([sw EXCEPT !.isMonitoring = isActive,
                     !.plantState = IF isActive THEN @ ELSE plantStateOf(FALSE, 0)],
          <<NoteFor(isActive)>>,
          [status |-> "received", wasMonitoring |-> sw.isMonitoring,
           isMonitoring |-> isActive])

\* request.action === 'sessionStatus'
sessionStatusRequest(sw, isActive) ==
  Handled([sw EXCEPT !.isMonitoring = isActive,
                     !.plantState = IF isActive THEN @ ELSE plantStateOf(FALSE, 0)],
          IF sw.isMonitoring # isActive THEN <<NoteFor(isActive)>> ELSE <<>>,
          [status |-> "received", wasMonitoring |-> sw.isMonitoring,
           isMonitoring |-> isActive])

externalRequest(sw, request) ==
  CASE request.action = "ping" -> Handled(sw, <<>>, [status |-> "connected"])
    [] request.action = "updatePosture" -> updatePostureRequest(sw, request.data)
    [] request.action = "sessionStatus" -> sessionStatusRequest(sw, request.isActive)

Workers ==
  [isMonitoring : BOOLEAN, currentScore : {0, 50, 90},
   plantState : {"dormant", "growing", "bloom"}]

Requests ==
  [action : {"ping", "updatePosture", "sessionStatus"},
   data : {NoData} \cup [postureScore : {0, 20, 45, 60, 75, 90}],
   isActive : BOOLEAN]

RequestProbes == [fn : {"onMessageExternal"}, sw : Workers, request : Requests]

\* a message from a web page arrives at the service worker
CallExternal ==
  /\ probe.fn = "onMessageExternal" /\ result = NoResult
  /\ result' = externalRequest(probe.sw, probe.request)
  /\ UNCHANGED probe
  /\ UNCHANGED notCalc

\* The three window 'message' listeners as functions of the receiver's
\* state and the event: the new state and what the listener sent or called.
OwnOrigin == "https://app.example"
Origins == {OwnOrigin, "https://other.example"}

\* Faulty variant: every origin is accepted
acceptsOrigin_Any(event) == TRUE

\* event.origin !== window.location.origin: return
acceptsOrigin(event) == event.origin = OwnOrigin

Heard(st, out) == [returned |-> TRUE, state |-> st, out |-> out]

\* content script: window.addEventListener('message', ...)
contentScriptListener(st, event) ==
  IF ~acceptsOrigin(event) THEN Heard(st, <<>>)
  ELSE IF event.source = "extension" THEN Heard(st, <<>>)
  ELSE CASE event.type = "NEURALSTRIDE_WEBAPP_READY" ->
              Heard([st EXCEPT !.isConnected = TRUE, !.retryCount = 0,
                               !.announcing = FALSE],
                    <<"postMessage NEURALSTRIDE_CONTENT_SCRIPT_CONFIRMED">>)
         [] event.type = "NEURALSTRIDE_WEBAPP_START" ->
              Heard(st, <<"sendMessage startMonitoring">>)
         [] event.type = "NEURALSTRIDE_WEBAPP_STOP" ->
              Heard(st, <<"sendMessage stopMonitoring">>)
         [] OTHER -> Heard(st, <<>>)

\* VideoFeed: handleExtensionMessage
handleExtensionMessage(st, event) ==
  IF ~acceptsOrigin(event) THEN Heard(st, <<>>)
  ELSE IF event.type = "NEURALSTRIDE_START_MONITORING"
          /\ event.source = "extension" /\ ~st.isStreaming
       THEN Heard(st, <<"startCamera">>)
  ELSE IF event.type = "NEURALSTRIDE_STOP_MONITORING"
          /\ event.source = "extension" /\ st.isStreaming
       THEN Heard([st EXCEPT !.isStreaming = FALSE], <<"stopCamera">>)
  ELSE Heard(st, <<>>)

\* ExtensionBridge: the listener discoverExtensionId adds
announceListenerCall(st, event) ==
  IF ~acceptsOrigin(event) THEN Heard(st, <<>>)
  ELSE IF event.type = "NEURALSTRIDE_CONTENT_SCRIPT_READY"
          /\ ~st.isExtensionAvailable
       THEN Heard(st, <<"setTimeout checkExtension">>)
  ELSE Heard(st, <<>>)

Events ==
  [origin : Origins, source : {"extension", "webapp"},
   type : {"NEURALSTRIDE_WEBAPP_READY", "NEURALSTRIDE_WEBAPP_START",
           "NEURALSTRIDE_WEBAPP_STOP", "NEURALSTRIDE_START_MONITORING",
           "NEURALSTRIDE_STOP_MONITORING", "NEURALSTRIDE_CONTENT_SCRIPT_READY",
           "NEURALSTRIDE_HEARTBEAT"}]

Receivers ==
  [isConnected : BOOLEAN, retryCount : {0, 2}, announcing : BOOLEAN,
   isStreaming : BOOLEAN, isExtensionAvailable : BOOLEAN]

MessageProbes ==
  [fn : {"message"}, listener : {"contentScript", "webApp", "bridge"},
   state : Receivers, event : Events]

\* a window 'message' event is dispatched to one of the listeners
CallListener ==
  /\ probe.fn = "message" /\ result = NoResult
  /\ result' = CASE probe.listener = "contentScript" ->
                      contentScriptListener(probe.state, probe.event)
                 [] probe.listener = "webApp" ->
                      handleExtensionMessage(probe.state, probe.event)
                 [] probe.listener = "bridge" ->
                      announceListenerCall(probe.state, probe.event)
  /\ UNCHANGED probe
  /\ UNCHANGED notCalc

\* One ping of a connection check, from chrome.runtime.sendMessage to the
\* state checkExtension leaves.  What the runtime does with the ping:
\* the extension's handler answers {status: 'connected'}; another reply
\* arrives; the callback runs with lastError set; the call throws; or the
\* callback is never run.
Behaviours == {"connected", "otherReply", "lastError", "throws", "silent"}

\* tryConnect: the state its promise ends in.  resolve() is called in the
\* callback and in the catch block, nowhere else.
tryConnectPromise(behaviour) ==
  CASE behaviour = "connected" -> "true"
    [] behaviour \in {"otherReply", "lastError", "throws"} -> "false"
    [] behaviour = "silent" -> "pending"

\* checkExtension from the ping on: the code after the await runs when the
\* promise is settled.
checkWithPing(b, behaviour) ==
  LET sent == tryConnect(b)
      promise == tryConnectPromise(behaviour)
  IN  [returned |-> TRUE,
       promise |-> promise,
       bridge |-> IF promise = "pending" THEN sent
                  ELSE checkAfterPing([sent EXCEPT !.np = @ - 1],
                                      promise = "true")]

PingBridges ==
  {[eid |-> KnownId, avail |-> a, queue |-> q, retry |-> r, nd |-> 0, np |-> 0,
    timers |-> 0, listener |-> FALSE, drain |-> FALSE, inflight |-> <<>>] :
     a \in BOOLEAN, r \in 0..maxRetries,
     q \in {<<>>, <<[id |-> 1, kind |-> "updatePosture"]>>}}

PingProbes == [fn : {"ping"}, behaviour : Behaviours, bridge : PingBridges]

\* a connection check pings the extension
CallPing ==
  /\ probe.fn = "ping" /\ result = NoResult
  /\ result' = checkWithPing(probe.bridge, probe.behaviour)
  /\ UNCHANGED probe
  /\ UNCHANGED notCalc

Probes ==
  ScoreProbes \cup StressProbes \cup PoseProbes \cup RequestProbes
    \cup MessageProbes \cup PingProbes

CalcInit ==
  /\ probe \in Probes /\ result = NoResult
  /\ BridgeStart(0) /\ link = "broken"
  /\ VoiceStart /\ frequency = "medium"
  /\ PlantStart
  /\ ScriptStart /\ NoticeStart

CalcNext ==
  \/ CallPostureScore
  \/ CallStress
  \/ CallDetectPose
  \/ CallExternal
  \/ CallListener
  \/ CallPing

SpecCalc == CalcInit /\ [][CalcNext]_vars

(***************************************************************************)
(* Section 4a.  Claims about the score composer.                           *)
(***************************************************************************)
Scored == probe.fn = "calculatePostureScore" /\ result # NoResult

\* C13: for every cervical angle, shoulder alignment and head-forward
\* value, out-of-range ones included, calculatePostureScore returns an
\* integer in [0,100].
C13_ScoreRange == Scored => result.postureScore \in 0..100

\* C13's case: out-of-range inputs whose weighted sum is above 100 have been
\* scored.
C13_Witness ==
  /\ Scored
  /\ totalScore(probe.cervicalAngle, probe.shoulderAlignment, probe.headForward)
       > 200 * 100
  /\ result.postureScore = 100

\* C14: for angles in 0..180 the cervical sub-score is 100 exactly when the
\* angle is in [155,165]; above 165 it is given by the branch that
\* penalises the distance from 160 and is below 100.
C14_IdealBand ==
  (Scored /\ probe.cervicalAngle \in Deg(0)..Deg(180))
    => /\ result.cervicalScore = Pts(100)
            <=> probe.cervicalAngle \in Deg(155)..Deg(165)
       /\ probe.cervicalAngle > Deg(165)
            => /\ result.cervicalScore
                    = Pts(95) - 4 * (probe.cervicalAngle - Deg(160))
               /\ result.cervicalScore < Pts(100)

\* C14's case: the collinear 180 degree angle has been scored (55 points).
C14_Witness ==
  /\ Scored /\ probe.cervicalAngle = Deg(180)
  /\ result.cervicalScore = Pts(55)

\* C33: the cervical sub-score does not increase as the angle departs from
\* the ideal band 155-165: for angles a < b <= 155 the sub-score of a is at
\* most that of b, and for 165 <= a < b <= 180 the sub-score of b is at most
\* that of a.  The scored angle is compared with every angle farther from
\* the band on the same side.
C33_MonotoneFromBand ==
  Scored =>
    \A farther \in AngleInputs :
      /\ (farther < probe.cervicalAngle /\ probe.cervicalAngle <= Deg(155))
           => cervicalScore(farther) <= result.cervicalScore
      /\ (Deg(165) <= probe.cervicalAngle /\ probe.cervicalAngle < farther
            /\ farther <= Deg(180))
           => cervicalScore(farther) <= result.cervicalScore

\* What the code does keep: above the band the sub-score does not increase
\* with the angle, and below the band it does not decrease with the angle
\* inside each of [150,155], [115,150) and below 115; the breaks are at the
\* branch limits 150 and 115.
C33_MonotoneWithinBranches ==
  Scored =>
    \A farther \in AngleInputs :
      /\ (Deg(165) <= probe.cervicalAngle /\ probe.cervicalAngle < farther)
           => cervicalScore(farther) <= result.cervicalScore
      /\ (Deg(150) <= farther /\ farther < probe.cervicalAngle
            /\ probe.cervicalAngle <= Deg(155))
           => cervicalScore(farther) <= result.cervicalScore
      /\ (Deg(115) <= farther /\ farther < probe.cervicalAngle
            /\ probe.cervicalAngle < Deg(150))
           => cervicalScore(farther) <= result.cervicalScore
      /\ (farther < probe.cervicalAngle /\ probe.cervicalAngle < Deg(115))
           => cervicalScore(farther) <= result.cervicalScore

(***************************************************************************)
(* Section 4b.  Claims about the stress mapper.                            *)
(***************************************************************************)
Mapped == probe.fn = "stress" /\ result # NoResult

\* C15: calculateCervicalStress, calculateThoracicStress and
\* calculateLumbarStress each return a value in [0,100] for every
\* score/angle pair, the boundaries and out-of-range scores included.
C15_StressRange ==
  Mapped => /\ result.cervicalStress \in 0..Pts(100)
            /\ result.thoracicStress \in 0..Pts(100)
            /\ result.lumbarStress \in 0..Pts(100)

\* C15's case: a score below 0 with an angle on the boundary 115, where
\* the thoracic sum (72 + 40) and the lumbar value are cut at 100.
C15_Witness ==
  /\ Mapped
  /\ probe.postureScore = -20 /\ probe.cervicalAngle = Deg(115)
  /\ result.thoracicStress = Pts(100)
  /\ result.lumbarStress = Pts(100)
  /\ result.cervicalStress = Pts(100)

(***************************************************************************)
(* Section 4c.  Claims about metric extraction.                            *)
(***************************************************************************)
Extracted == probe.fn = "detectPose" /\ probe.ready /\ result # NoResult
Malformed ==
  /\ Len(probe.landmarks) > 0
  /\ ~(Required \subseteq DOMAIN probe.landmarks[1])

\* C16: when the landmark input is absent or a required landmark index is
\* missing, metric extraction returns the all-zero metrics with
\* isPersonDetected = false and raises no error.
C16_NoLandmarksNoError ==
  (Extracted /\ (probe.landmarks = <<>> \/ Malformed))
    => result = Returned(ZeroMetrics)

(***************************************************************************)
(* Section 4d.  Claims about the service worker's request handling.        *)
(***************************************************************************)
Answered == probe.fn = "onMessageExternal" /\ result # NoResult
NoDataUpdate ==
  probe.request.action = "updatePosture" /\ probe.request.data = NoData

SameStatus ==
  /\ probe.request.action = "sessionStatus"
  /\ probe.request.isActive = probe.sw.isMonitoring

\* C27: a SessionStatus(isActive) message whose value equals the receiver's
\* current monitoring flag leaves the flag unchanged and emits no Start or
\* Stop notification back toward the web app.
C27_SameStatusIsSilent ==
  (Answered /\ SameStatus)
    => /\ result.sw.isMonitoring = probe.sw.isMonitoring
       /\ result.notes = <<>>

\* C27's case: sessionStatus(true) has been answered by a worker that was
\* already monitoring.
C27_Witness ==
  /\ Answered /\ SameStatus
  /\ probe.sw.isMonitoring
  /\ result.reply = [status |-> "received", wasMonitoring |-> TRUE,
                     isMonitoring |-> TRUE]

\* the request has changed the worker's isMonitoring flag
FlagChanged == result.sw.isMonitoring # probe.sw.isMonitoring

\* C36: whenever a message from the web app changes the extension's
\* isMonitoring flag, the extension emits the matching Start/Stop
\* notification toward the web app, whatever the kind of the message,
\* updatePosture included.
C36_FlagChangeNotifies ==
  (Answered /\ FlagChanged)
    => result.notes = <<NoteFor(result.sw.isMonitoring)>>

\* What the code does: a sessionStatus message that changes the flag is
\* notified, an updatePosture message with data sets the flag and notifies
\* nothing.
C36_OnlySessionStatusNotifies ==
  Answered =>
    /\ (FlagChanged /\ probe.request.action = "sessionStatus")
         => result.notes = <<NoteFor(probe.request.isActive)>>
    /\ (probe.request.action = "updatePosture" /\ ~NoDataUpdate)
         => (result.sw.isMonitoring /\ result.notes = <<>>)

(***************************************************************************)
(* Section 4e.  Claims about the window message listeners.                 *)
(***************************************************************************)
Dispatched == probe.fn = "message" /\ result # NoResult

\* C18: an envelope whose origin differs from the receiver's own origin
\* causes no state change and no forwarded message in the content script
\* listener, the web app listener and the bridge's announce listener,
\* whatever its type.
C18_ForeignOriginIgnored ==
  (Dispatched /\ probe.event.origin # OwnOrigin)
    => result.state = probe.state /\ result.out = <<>>

\* C18's case: a foreign WEBAPP_READY reached the content script while it
\* was still announcing, and it still is.
C18_Witness ==
  /\ Dispatched /\ probe.event.origin # OwnOrigin
  /\ probe.listener = "contentScript"
  /\ probe.event.type = "NEURALSTRIDE_WEBAPP_READY"
  /\ probe.event.source = "webapp"
  /\ ~probe.state.isConnected /\ probe.state.announcing
  /\ result.state.announcing /\ ~result.state.isConnected

(***************************************************************************)
(* Section 4f.  Claims about the ping of a connection check.               *)
(***************************************************************************)
Pinged == probe.fn = "ping" /\ result # NoResult

\* the ping ended with the connection marked up and the retries reset
MarkedUp ==
  /\ result.promise = "true"
  /\ result.bridge.avail /\ result.bridge.retry = 0 /\ result.bridge.np = 0

\* the ping ended with the connection marked down
MarkedDown ==
  /\ result.promise = "false"
  /\ ~result.bridge.avail /\ result.bridge.np = 0

\* C24: every ping issued by a connection check is resolved: a reply with
\* status 'connected' marks the connection up and resets retryCount to 0,
\* and the absence of such a reply (error callback, other reply, or no
\* reply at all) marks the connection down.
C24_PingResolved ==
  Pinged => IF probe.behaviour = "connected" THEN MarkedUp ELSE MarkedDown

\* Whenever the callback runs or the call throws, the ping is resolved so.
C24_AnsweredPingResolved ==
  (Pinged /\ probe.behaviour # "silent")
    => IF probe.behaviour = "connected" THEN MarkedUp ELSE MarkedDown

\* When the callback never runs the promise stays pending and the check
\* changes nothing: a bridge that was marked up stays marked up.
C24_SilentPingPends ==
  (Pinged /\ probe.behaviour = "silent")
    => /\ result.promise = "pending"
       /\ result.bridge = [probe.bridge EXCEPT !.np = 1]

(***************************************************************************)
(* Section 5.  The content script of one page load.  Its functions work on *)
(* a record of the script's variables; the envelopes it posts are counted. *)
(***************************************************************************)
MAX_RETRIES == 5
MaxReady == 9        \* READY envelopes counted
MaxConfirmed == 2    \* WEBAPP_READY envelopes answered
MaxBeats == 3        \* heartbeats counted

Script ==
  [isConnected |-> isConnected, retryCount |-> announceRetries,
   announcing |-> announceInterval, notifyAttempts |-> notifyAttempts,
   notifying |-> notifyInterval, ready |-> readyPosted]

CommitScript(c) ==
  /\ isConnected' = c.isConnected
  /\ announceRetries' = c.retryCount
  /\ announceInterval' = c.announcing
  /\ notifyAttempts' = c.notifyAttempts
  /\ notifyInterval' = c.notifying
  /\ readyPosted' = c.ready

\* announcePresence: posts CONTENT_SCRIPT_READY and sets isConnected
announcePresence(c) == [c EXCEPT !.ready = @ + 1, !.isConnected = TRUE]

\* notifyWebApp (the content script's): posts CONTENT_SCRIPT_READY
notifyWebAppReady(c) == [c EXCEPT !.ready = @ + 1, !.notifyAttempts = @ + 1]

\* the announceInterval callback
announceTick(c) ==
  IF ~c.isConnected /\ c.retryCount < MAX_RETRIES
  THEN [announcePresence(c) EXCEPT !.retryCount = @ + 1]
  ELSE IF c.retryCount >= MAX_RETRIES THEN [c EXCEPT !.announcing = FALSE]
  ELSE c

\* the notifyInterval callback
notifyTick(c) ==
  IF c.notifyAttempts < 5 /\ ~c.isConnected THEN notifyWebAppReady(c)
  ELSE [c EXCEPT !.notifying = FALSE]

\* the script's top level: announce, set the intervals, add the listeners
ScriptLoads ==
  /\ ~scriptLoaded
  /\ scriptLoaded' = TRUE
  /\ CommitScript(notifyWebAppReady(
       [announcePresence(Script) EXCEPT !.announcing = TRUE, !.notifying = TRUE]))
  /\ loadTimeout' \in {"none", "pending"}
  /\ UNCHANGED <<hidden, confirmedPosted, heartbeats>>
  /\ UNCHANGED notScript

\* setInterval(..., 2000) fires
AnnounceIntervalTick ==
  /\ scriptLoaded /\ announceInterval
  /\ announceTick(Script).ready <= MaxReady
  /\ CommitScript(announceTick(Script))
  /\ UNCHANGED <<scriptLoaded, loadTimeout, hidden, confirmedPosted, heartbeats>>
  /\ UNCHANGED notScript

\* setInterval(..., 1000) fires
NotifyIntervalTick ==
  /\ scriptLoaded /\ notifyInterval
  /\ notifyTick(Script).ready <= MaxReady
  /\ CommitScript(notifyTick(Script))
  /\ UNCHANGED <<scriptLoaded, loadTimeout, hidden, confirmedPosted, heartbeats>>
  /\ UNCHANGED notScript

\* the timeout set by the window 'load' listener fires
LoadTimeoutFires ==
  /\ loadTimeout = "pending"
  /\ loadTimeout' = "done"
  /\ LET c == IF ~isConnected THEN announcePresence(Script) ELSE Script
     IN  c.ready <= MaxReady /\ CommitScript(c)
  /\ UNCHANGED <<scriptLoaded, hidden, confirmedPosted, heartbeats>>
  /\ UNCHANGED notScript

\* the 'visibilitychange' listener
VisibilityChange ==
  /\ scriptLoaded
  /\ hidden' = ~hidden
  /\ LET c == IF ~hidden' /\ ~isConnected
              THEN announcePresence([Script EXCEPT !.retryCount = 0])
              ELSE Script
     IN  c.ready <= MaxReady /\ CommitScript(c)
  /\ UNCHANGED <<scriptLoaded, loadTimeout, confirmedPosted, heartbeats>>
  /\ UNCHANGED notScript

\* the heartbeat interval fires
HeartbeatTick ==
  /\ scriptLoaded /\ heartbeats < MaxBeats
  /\ heartbeats' = IF isConnected THEN heartbeats + 1 ELSE heartbeats
  /\ UNCHANGED <<scriptLoaded, isConnected, announceRetries, announceInterval,
                 notifyAttempts, notifyInterval, loadTimeout, hidden,
                 readyPosted, confirmedPosted>>
  /\ UNCHANGED notScript

\* the window 'message' listener receives an envelope
WindowMessage(event) ==
  /\ scriptLoaded
  /\ LET heard == contentScriptListener(Script, event)
         confirmed ==
           heard.out = <<"postMessage NEURALSTRIDE_CONTENT_SCRIPT_CONFIRMED">>
     IN  /\ confirmed => confirmedPosted < MaxConfirmed
         /\ CommitScript(heard.state)
         /\ confirmedPosted' = IF confirmed THEN confirmedPosted + 1
                               ELSE confirmedPosted
  /\ UNCHANGED <<scriptLoaded, loadTimeout, hidden, heartbeats>>
  /\ UNCHANGED notScript

ScriptInit ==
  /\ ScriptStart /\ NoticeStart
  /\ BridgeStart(0) /\ link = "broken"
  /\ VoiceStart /\ frequency = "medium"
  /\ PlantStart
  /\ CalcStart

ScriptNext ==
  \/ ScriptLoads
  \/ AnnounceIntervalTick
  \/ NotifyIntervalTick
  \/ LoadTimeoutFires
  \/ VisibilityChange
  \/ HeartbeatTick
  \/ \E event \in Events : WindowMessage(event)

SpecScript == ScriptInit /\ [][ScriptNext]_vars

(***************************************************************************)
(* Section 5a.  Claims about the content script's announcements.           *)
(***************************************************************************)
Acknowledged == confirmedPosted > 0

\* C25: the content script announces CONTENT_SCRIPT_READY on load and, as
\* long as the web app has not acknowledged with WEBAPP_READY, re-announces
\* at each tick of announceInterval, up to MAX_RETRIES further attempts; it
\* considers itself connected only after the acknowledgement, and the
\* interval is cleared once acknowledged.
C25_AnnounceUntilAcknowledged ==
  /\ [](scriptLoaded => readyPosted >= 1)
  /\ [](isConnected => Acknowledged)
  /\ [](Acknowledged => ~announceInterval)
  /\ [][(AnnounceIntervalTick /\ ~Acknowledged /\ announceRetries < MAX_RETRIES)
          => readyPosted' = readyPosted + 1]_vars

\* What the script does: it is connected from its first announcement on and
\* never announces again; the two envelopes of the load are all it posts.
C25_ConnectedAtLoad ==
  scriptLoaded =>
    /\ isConnected
    /\ announceRetries = 0
    /\ readyPosted = 2
    /\ notifyAttempts = 1


(***************************************************************************)
(* Section 6.  The service worker's poor-posture notifications.  The       *)
(* updatePosture handler tests the cooldown when the message arrives and   *)
(* then reads the settings asynchronously; the notification is created in  *)
(* the callback of that read.                                              *)
(***************************************************************************)
MaxNow == 8          \* the worker's clock runs to this many steps of 20 s
MaxReads == 2        \* settings reads awaiting their callback
MaxNotified == 2     \* notifications created in one run

NoticeScores == {20, 40}

\* a settings read started by a message that arrived at time asked
Read(asked) == [now |-> asked]

\* a notification created at time at, for the message that arrived at asked
Notice(at, asked) == [at |-> at, asked |-> asked]

Resolved(reads, i) == SubSeq(reads, 1, i - 1) \o SubSeq(reads, i + 1, Len(reads))

\* now - lastNotificationTime > NOTIFICATION_COOLDOWN
cooldownOver(time, last) == time - last > NOTIFICATION_COOLDOWN

\* request.action === 'updatePosture' arrives at the worker
UpdatePosture(data) ==
  /\ Len(settingsReads) < MaxReads
  /\ IF data = NoData
     THEN /\ lastReply' = [status |-> "error", message |-> "No data provided"]
          /\ UNCHANGED <<isMonitoring, currentScore, settingsReads>>
     ELSE /\ currentScore' = data.postureScore
          /\ isMonitoring' = TRUE
          /\ settingsReads' =
               IF data.postureScore < 40
                    /\ cooldownOver(AtMs(swNow), lastNotificationTime)
               THEN Append(settingsReads, Read(AtMs(swNow)))
               ELSE settingsReads
          /\ lastReply' = [status |-> "updated", currentScore |-> data.postureScore]
  /\ UNCHANGED <<swNow, lastNotificationTime, notifiedAt>>
  /\ UNCHANGED notNotice

\* the callback of chrome.storage.local.get(['settings'], ...) for read i;
\* enabled is result.settings && result.settings.notifications
SettingsRead(i, enabled) ==
  /\ i \in DOMAIN settingsReads
  /\ Len(notifiedAt) < MaxNotified
  /\ settingsReads' = Resolved(settingsReads, i)
  /\ IF enabled
     THEN /\ notifiedAt' = Append(notifiedAt, Notice(AtMs(swNow), settingsReads[i].now))
          /\ lastNotificationTime' = settingsReads[i].now
     ELSE UNCHANGED <<notifiedAt, lastNotificationTime>>
  /\ UNCHANGED <<swNow, currentScore, isMonitoring, lastReply>>
  /\ UNCHANGED notNotice

\* 20 s pass in the worker
WorkerClock ==
  /\ swNow < MaxNow
  /\ swNow' = swNow + 1
  /\ UNCHANGED <<currentScore, lastNotificationTime, settingsReads, notifiedAt,
                 isMonitoring, lastReply>>
  /\ UNCHANGED notNotice

NoticeInit ==
  /\ NoticeStart
  /\ BridgeStart(0) /\ link = "broken"
  /\ VoiceStart /\ frequency = "medium"
  /\ PlantStart /\ CalcStart /\ ScriptStart

NoticeNext ==
  \/ \E data \in {NoData} \cup [postureScore : NoticeScores] : UpdatePosture(data)
  \/ \E i \in 1..MaxReads, enabled \in BOOLEAN : SettingsRead(i, enabled)
  \/ WorkerClock

SpecNotice == NoticeInit /\ [][NoticeNext]_vars

(***************************************************************************)
(* Section 6a.  Claims about the notification cooldown.                    *)
(***************************************************************************)
\* C34: two poor-posture notifications created by the extension are always
\* more than NOTIFICATION_COOLDOWN (60 s) apart, for any arrival order of
\* updatePosture messages with score < 40 and of the settings-read
\* callbacks.
C34_NotificationsApart ==
  \A i, j \in DOMAIN notifiedAt :
    i < j => notifiedAt[j].at - notifiedAt[i].at > NOTIFICATION_COOLDOWN

\* What the code does keep: a settings read is started only by a message
\* with a score below 40 that arrives with the cooldown over, and its
\* callback creates the notification without testing the cooldown again
\* and records the arrival time of the message, not the time of creation.
C34_TestedAtArrivalOnly ==
  [][/\ settingsReads' # settingsReads /\ Len(settingsReads') > Len(settingsReads)
          => /\ cooldownOver(AtMs(swNow), lastNotificationTime)
             /\ currentScore' < 40
     /\ notifiedAt' # notifiedAt
          => /\ Len(notifiedAt') = Len(notifiedAt) + 1
             /\ lastNotificationTime' = notifiedAt'[Len(notifiedAt')].asked]_vars

=============================================================================
